---- MODULE Spec2Model ----
(***************************************************************************)
(* Model of the economic-data visualiser: the economic_data table, the     *)
(* scripts that write it (OECD fetcher, CSV ingest, derived-metric         *)
(* calculators, remediation filters, quarter relabel), the OECD API client *)
(* and the read-only Flask query API.                                      *)
(*                                                                         *)
(* Abstractions, stated once:                                              *)
(*   - REAL values are exact rationals <<n, d>> (d > 0, lowest terms);     *)
(*     float rounding is not modelled.                                     *)
(*   - a time_period string 'YYYY-Qn' is the pair <<YYYY, n>>, the annual  *)
(*     string 'YYYY' is <<YYYY, 0>>; string order on such periods is the   *)
(*     lexicographic order of the pairs.                                   *)
(*   - the last_updated column is not modelled (no claim reads it).        *)
(***************************************************************************)
EXTENDS Integers, Sequences, FiniteSets, TLC

VARIABLES
    economic_data,   \* the rows of the economic_data table
    before,          \* the table when the last script or request started
    last,            \* the last script or request: [op, arg, ret, err]
    runs,            \* number of scripts started so far
    fetch_pc,        \* where OECDAPIClient.fetch stands
    retries,         \* fetch: retries
    attempt,         \* fetch: the loop variable
    last_exception,  \* fetch: last_exception
    response,        \* fetch: what the call returned or raised
    requests,        \* fetch: the outcome of every session.get so far
    sleeps,          \* fetch: the argument of every time.sleep so far
    split_pc,        \* where split_into_batches stands
    split_arg,       \* split_into_batches: its arguments
    current_year,    \* split_into_batches: current_year
    current_quarter, \* split_into_batches: current_quarter
    split_batches    \* split_into_batches: batches

vars == <<economic_data, before, last, runs, fetch_pc, retries, attempt,
          last_exception, response, requests, sleeps, split_pc, split_arg,
          current_year, current_quarter, split_batches>>

storeVars == <<economic_data, before, last>>
clientVars == <<fetch_pc, retries, attempt, last_exception, response, requests, sleeps>>
splitVars == <<split_pc, split_arg, current_year, current_quarter, split_batches>>

(***************************************************************************)
(* Exact rational arithmetic standing in for Python float arithmetic.      *)
(***************************************************************************)
Abs(x) == IF x < 0 THEN -x ELSE x

RECURSIVE Gcd(_, _)
Gcd(a, b) == IF b = 0 THEN a ELSE Gcd(b, a % b)

RNorm(n, d) ==
    LET s == IF d < 0 THEN -1 ELSE 1
        g == Gcd(Abs(n), Abs(d))
    IN  <<(s * n) \div g, (s * d) \div g>>

R(i) == <<i, 1>>
RAdd(a, b) == RNorm(a[1] * b[2] + b[1] * a[2], a[2] * b[2])
RSub(a, b) == RNorm(a[1] * b[2] - b[1] * a[2], a[2] * b[2])
RMul(a, b) == RNorm(a[1] * b[1], a[2] * b[2])
RDiv(a, b) == RNorm(a[1] * b[2], a[2] * b[1])
RLess(a, b) == a[1] * b[2] < b[1] * a[2]
RAbs(a) == <<Abs(a[1]), a[2]>>
RIsZero(a) == a[1] = 0

(***************************************************************************)
(* Sorting helpers: a finite set as the sequence ascending by an integer-  *)
(* tuple key (lexicographic).                                              *)
(***************************************************************************)
RECURSIVE LexLess(_, _)
LexLess(s, t) ==
    IF s = <<>> \/ t = <<>> THEN FALSE
    ELSE IF s[1] # t[1] THEN s[1] < t[1]
    ELSE LexLess(Tail(s), Tail(t))

\* Insert the keyed record x into the key-ascending sequence seq, after
\* every element whose key is not greater.
InsertKeyed(x, seq) ==
    LET n == Cardinality({i \in 1..Len(seq) : ~LexLess(x.k, seq[i].k)})
    IN  SubSeq(seq, 1, n) \o <<x>> \o SubSeq(seq, n + 1, Len(seq))

RECURSIVE SortRecords(_)
SortRecords(S) ==
    IF S = {} THEN <<>>
    ELSE LET x == CHOOSE y \in S : TRUE
         IN  InsertKeyed(x, SortRecords(S \ {x}))

\* S is a set of records [k |-> key tuple, v |-> element] with distinct keys;
\* the elements in ascending key order.
RECURSIVE StripKeys(_)
StripKeys(seq) ==
    IF seq = <<>> THEN <<>> ELSE <<Head(seq).v>> \o StripKeys(Tail(seq))

SortKeyed(S) == StripKeys(SortRecords(S))

\* F applied to the value of x, with x evaluated once.
Apply(F(_), x) == CHOOSE r \in {F(v) : v \in {x}} : TRUE

RECURSIVE Concat(_)
Concat(ss) == IF ss = <<>> THEN <<>> ELSE Head(ss) \o Concat(Tail(ss))

Range(s) == {s[i] : i \in 1..Len(s)}

(***************************************************************************)
(* The economic_data table: a set of rows.  The schema's PRIMARY KEY       *)
(* (country, time_period, metric_name) is enforced by the statements that  *)
(* write the table (a plain INSERT or UPDATE onto an occupied key raises   *)
(* sqlite3.IntegrityError), not by the representation.                     *)
(***************************************************************************)
Countries == {"Austria", "Ireland"}

\* BINARY collation of the country strings used by ORDER BY country.
CountryRank(c) == IF c = "Austria" THEN 1 ELSE 2

Row(c, p, m, v, u, s) ==
    [country |-> c, time_period |-> p, metric_name |-> m,
     value |-> v, unit |-> u, source |-> s]

KeyOf(r) == <<r.country, r.time_period, r.metric_name>>

HasKey(tbl, c, p, m) == \E r \in tbl : KeyOf(r) = <<c, p, m>>

\* Mutation: INSERT OR IGNORE - an existing row is kept as it is.
UpsertRow_Ignore(tbl, c, p, m, v, u, s) ==
    IF HasKey(tbl, c, p, m) THEN tbl ELSE tbl \cup {Row(c, p, m, v, u, s)}

\* INSERT ... ON CONFLICT(country, time_period, metric_name) DO UPDATE SET
\* value, unit, source = excluded.*
UpsertRow(tbl, c, p, m, v, u, s) ==
    {r \in tbl : KeyOf(r) # <<c, p, m>>} \cup {Row(c, p, m, v, u, s)}

\* Mutation: the DELETE omits the metric_name condition.
DeleteKey_AnyMetric(tbl, c, p, m) ==
    {r \in tbl : <<r.country, r.time_period>> # <<c, p>>}

\* DELETE FROM economic_data WHERE metric_name = ? AND country = ? AND time_period = ?
DeleteKey(tbl, c, p, m) == {r \in tbl : KeyOf(r) # <<c, p, m>>}

parse_quarter(p) == IF p[2] = 0 THEN <<0, 0>> ELSE <<p[1], p[2]>>

\* SELECT ... WHERE metric_name = m ORDER BY country, time_period, grouped by
\* country, each group then sorted (stably) by parse_quarter.
data_points(tbl, m, c) ==
    SortKeyed({[k |-> parse_quarter(r.time_period) \o r.time_period,
                v |-> [time_period |-> r.time_period, value |-> r.value]] :
               r \in {x \in tbl : x.metric_name = m /\ x.country = c}})

\* Keys of country_data in iteration (insertion = ORDER BY country) order.
country_data(tbl, m) ==
    SortKeyed({[k |-> <<CountryRank(c)>>, v |-> c] :
               c \in {r.country : r \in {x \in tbl : x.metric_name = m}}})

\* ((b - a) / a) * 100
PctChange(a, b) == RMul(RDiv(RSub(b, a), a), R(100))

NoError == "none"

\* No script or request is running: the record of the last run is cleared.
NoOp == [op |-> "none", arg |-> <<>>, ret |-> <<>>, err |-> NoError]
Idle == last = NoOp

(***************************************************************************)
(* filter_bad_data.py                                                      *)
(***************************************************************************)
DEV_CURR_LIMIT == 30
DEV_PREV_LIMIT == 15
MIN_POINTS_OUTLIER == 3

\* Mutation: after marking a point the loop goes on with the next point
\* ("i += 1" in place of "i += 2").
RECURSIVE BadDataScan_NoSkip(_, _, _)
BadDataScan_NoSkip(dp, j, thr) ==
    IF j > Len(dp) THEN [err |-> FALSE, del |-> <<>>]
    ELSE
    LET prev_val == dp[j-1].value
        curr_val == dp[j].value
        pct_change == PctChange(prev_val, curr_val)
        extreme == RLess(R(0), prev_val) /\ RLess(R(thr), RAbs(pct_change))
        hasNext == j + 1 <= Len(dp)
        next_val == dp[j+1].value
        pct_change_next == PctChange(curr_val, next_val)
        outlier == /\ RLess(R(thr), RAbs(pct_change_next))
                   /\ RLess(RMul(pct_change, pct_change_next), R(0))
        avg_neighbors == RDiv(RAdd(dp[j-2].value, next_val), R(2))
        dev_curr == RAbs(RMul(RDiv(RSub(curr_val, avg_neighbors), avg_neighbors), R(100)))
        dev_prev == RAbs(RMul(RDiv(RSub(prev_val, avg_neighbors), avg_neighbors), R(100)))
        step1 == BadDataScan_NoSkip(dp, j + 1, thr)
        mark == Apply(LAMBDA rest : [err |-> rest.err,
                                     del |-> <<dp[j].time_period>> \o rest.del],
                      step1)
    IN  IF ~(extreme /\ hasNext) THEN step1
        ELSE IF RIsZero(curr_val) THEN [err |-> TRUE, del |-> <<>>]
        ELSE IF outlier THEN mark
        ELSE IF j < 3 THEN step1
        ELSE IF RIsZero(avg_neighbors) THEN [err |-> TRUE, del |-> <<>>]
        ELSE IF RLess(R(DEV_CURR_LIMIT), dev_curr) /\ RLess(dev_prev, R(DEV_PREV_LIMIT))
             THEN mark
        ELSE step1

\* The while loop of filter_bad_data over one country's data_points; j is
\* the 1-based position of curr_point (Python i + 1).  Result: the marked
\* time_periods in order, or err when a division by zero is raised.
RECURSIVE BadDataScan(_, _, _)
BadDataScan(dp, j, thr) ==
    IF j > Len(dp) THEN [err |-> FALSE, del |-> <<>>]
    ELSE
    LET prev_val == dp[j-1].value
        curr_val == dp[j].value
        pct_change == PctChange(prev_val, curr_val)
        extreme == RLess(R(0), prev_val) /\ RLess(R(thr), RAbs(pct_change))
        hasNext == j + 1 <= Len(dp)
        next_val == dp[j+1].value
        pct_change_next == PctChange(curr_val, next_val)
        outlier == /\ RLess(R(thr), RAbs(pct_change_next))
                   /\ RLess(RMul(pct_change, pct_change_next), R(0))
        avg_neighbors == RDiv(RAdd(dp[j-2].value, next_val), R(2))
        dev_curr == RAbs(RMul(RDiv(RSub(curr_val, avg_neighbors), avg_neighbors), R(100)))
        dev_prev == RAbs(RMul(RDiv(RSub(prev_val, avg_neighbors), avg_neighbors), R(100)))
        skip2 == Apply(LAMBDA rest : [err |-> rest.err,
                                      del |-> <<dp[j].time_period>> \o rest.del],
                       BadDataScan(dp, j + 2, thr))
        step1 == BadDataScan(dp, j + 1, thr)
    IN  IF ~(extreme /\ hasNext) THEN step1
        ELSE IF RIsZero(curr_val) THEN [err |-> TRUE, del |-> <<>>]
        ELSE IF outlier THEN skip2
        ELSE IF j < 3 THEN step1
        ELSE IF RIsZero(avg_neighbors) THEN [err |-> TRUE, del |-> <<>>]
        ELSE IF RLess(R(DEV_CURR_LIMIT), dev_curr) /\ RLess(dev_prev, R(DEV_PREV_LIMIT))
             THEN skip2
        ELSE step1

bad_data_country(tbl, m, c, thr) ==
    Apply(LAMBDA dp : IF Len(dp) < MIN_POINTS_OUTLIER THEN [err |-> FALSE, del |-> <<>>]
                      ELSE BadDataScan(dp, 2, thr),
          data_points(tbl, m, c))

\* Tag one country's marked periods with country and metric.
RECURSIVE Tagged(_, _, _)
Tagged(del, c, m) ==
    IF del = <<>> THEN <<>>
    ELSE <<[metric |-> m, country |-> c, time_period |-> Head(del)]>>
         \o Tagged(Tail(del), c, m)

\* Run scan(tbl, m, c) over every country of every metric of the list, in
\* order; the concatenated candidates, or err if any scan raised.
RECURSIVE CollectCountries(_, _, _, _)
CollectCountries(scanOf, m, cs, i) ==
    IF i > Len(cs) THEN [err |-> FALSE, del |-> <<>>]
    ELSE Apply(LAMBDA pair :
                   IF pair[1].err \/ pair[2].err THEN [err |-> TRUE, del |-> <<>>]
                   ELSE [err |-> FALSE,
                         del |-> Tagged(pair[1].del, cs[i], m) \o pair[2].del],
               <<scanOf[<<m, cs[i]>>], CollectCountries(scanOf, m, cs, i + 1)>>)

RECURSIVE CollectMetrics(_, _, _, _)
CollectMetrics(tbl, scanOf, metrics, i) ==
    IF i > Len(metrics) THEN [err |-> FALSE, del |-> <<>>]
    ELSE Apply(LAMBDA pair :
                   IF pair[1].err \/ pair[2].err THEN [err |-> TRUE, del |-> <<>>]
                   ELSE [err |-> FALSE, del |-> pair[1].del \o pair[2].del],
               <<CollectCountries(scanOf, metrics[i], country_data(tbl, metrics[i]), 1),
                 CollectMetrics(tbl, scanOf, metrics, i + 1)>>)

bad_data_candidates(tbl, metrics, thr) ==
    CollectMetrics(tbl,
                   [mc \in Range(metrics) \X Countries |->
                        bad_data_country(tbl, mc[1], mc[2], thr)],
                   metrics, 1)

\* The DELETE loop shared by the three filters.
RECURSIVE DeleteAll(_, _, _)
DeleteAll(tbl, cands, i) ==
    IF i > Len(cands) THEN tbl
    ELSE DeleteAll(DeleteKey(tbl, cands[i].country, cands[i].time_period, cands[i].metric),
                   cands, i + 1)

(***************************************************************************)
(* filter_outliers_selective.py                                            *)
(***************************************************************************)
ISOLATED_DEV_LIMIT == 30

\* Mutation: only the spike-and-revert pattern is tested.
OutlierMarked_SpikeOnly(dp, j, thr) ==
    LET prev_val == dp[j-1].value
        curr_val == dp[j].value
        next_val == dp[j+1].value
    IN  IF ~RLess(R(0), prev_val) \/ ~RLess(R(0), curr_val) \/ ~RLess(R(0), next_val)
        THEN FALSE
        ELSE /\ RLess(R(thr), PctChange(prev_val, curr_val))
             /\ RLess(PctChange(curr_val, next_val), R(-thr))

\* One iteration of "for i in range(1, len(data_points) - 1)": is the point
\* at 1-based position j (an interior point) marked?
OutlierMarked(dp, j, thr) ==
    LET prev_val == dp[j-1].value
        curr_val == dp[j].value
        next_val == dp[j+1].value
        to_curr == PctChange(prev_val, curr_val)
        from_curr == PctChange(curr_val, next_val)
        neighbor_avg == RDiv(RAdd(prev_val, next_val), R(2))
        dev_from_avg == RAbs(RMul(RDiv(RSub(curr_val, neighbor_avg), neighbor_avg), R(100)))
    IN  IF ~RLess(R(0), prev_val) \/ ~RLess(R(0), curr_val) \/ ~RLess(R(0), next_val)
        THEN FALSE
        ELSE IF RLess(R(thr), to_curr) /\ RLess(from_curr, R(-thr)) THEN TRUE
        ELSE IF RLess(to_curr, R(-thr)) /\ RLess(R(thr), from_curr) THEN TRUE
        ELSE IF RLess(R(thr), RAbs(to_curr)) /\ RLess(R(thr), RAbs(from_curr))
             THEN RLess(R(ISOLATED_DEV_LIMIT), dev_from_avg)
        ELSE FALSE

RECURSIVE OutlierScan(_, _, _)
OutlierScan(dp, j, thr) ==
    IF j > Len(dp) - 1 THEN <<>>
    ELSE (IF OutlierMarked(dp, j, thr) THEN <<dp[j].time_period>> ELSE <<>>)
         \o OutlierScan(dp, j + 1, thr)

outliers_country(tbl, m, c, thr) ==
    Apply(LAMBDA dp : IF Len(dp) < MIN_POINTS_OUTLIER THEN [err |-> FALSE, del |-> <<>>]
                      ELSE [err |-> FALSE, del |-> OutlierScan(dp, 2, thr)],
          data_points(tbl, m, c))

outliers_candidates(tbl, metrics, thr) ==
    CollectMetrics(tbl,
                   [mc \in Range(metrics) \X Countries |->
                        outliers_country(tbl, mc[1], mc[2], thr)],
                   metrics, 1)

(***************************************************************************)
(* filter_level_shifts.py                                                  *)
(***************************************************************************)
MIN_POINTS_LEVEL == 10
MIN_EXTREME_CHANGES == 2
LEVEL_DIFF_LIMIT == 40

\* 1-based positions j (2..len) whose change from the predecessor is extreme.
extreme_changes(dp, thr) ==
    {j \in 2..Len(dp) :
        /\ RLess(R(0), dp[j-1].value)
        /\ RLess(R(thr), RAbs(PctChange(dp[j-1].value, dp[j].value)))}

RECURSIVE SumValues(_, _, _)
SumValues(dp, a, b) ==
    IF a > b THEN R(0) ELSE RAdd(dp[a].value, SumValues(dp, a + 1, b))

RECURSIVE PeriodsOf(_, _, _)
PeriodsOf(dp, a, b) ==
    IF a > b THEN <<>> ELSE <<dp[a].time_period>> \o PeriodsOf(dp, a + 1, b)

\* A segment over positions first..end_pos of dp.
Segment(dp, first, end_pos) ==
    [start_idx |-> first, end_idx |-> end_pos, length |-> end_pos - first + 1,
     avg_value |-> RDiv(SumValues(dp, first, end_pos), R(end_pos - first + 1)),
     periods |-> PeriodsOf(dp, first, end_pos)]

\* Segments between extreme changes, in series order: a new segment starts
\* at position 1 and at every extreme change.
segments(dp, thr) ==
    LET starts == {1} \cup extreme_changes(dp, thr)
        endOf(a) == IF \E b \in starts : b > a
                    THEN (CHOOSE b \in starts : b > a /\ \A x \in starts : x > a => b <= x) - 1
                    ELSE Len(dp)
    IN  SortKeyed({[k |-> <<a>>, v |-> Segment(dp, a, endOf(a))] : a \in starts})

\* Mutation: among equally long segments the latest comes first.
sorted_segments_LatestFirst(dp, thr) ==
    Apply(LAMBDA segs : SortKeyed({[k |-> <<-(segs[i].length), -i>>, v |-> segs[i]] :
                                   i \in 1..Len(segs)}),
          segments(dp, thr))

\* segments.sort(key=length, reverse=True): stable, longest first.
sorted_segments(dp, thr) ==
    Apply(LAMBDA segs : SortKeyed({[k |-> <<-(segs[i].length), i>>, v |-> segs[i]] :
                                   i \in 1..Len(segs)}),
          segments(dp, thr))

RECURSIVE LevelMarks(_, _, _)
LevelMarks(segs, i, main_avg) ==
    IF i > Len(segs) THEN <<>>
    ELSE LET level_diff_pct ==
                 RAbs(RMul(RDiv(RSub(segs[i].avg_value, main_avg), main_avg), R(100)))
         IN  (IF RLess(R(LEVEL_DIFF_LIMIT), level_diff_pct) THEN segs[i].periods ELSE <<>>)
             \o LevelMarks(segs, i + 1, main_avg)

level_shift_country(tbl, m, c, thr) ==
    Apply(LAMBDA dp :
              IF Len(dp) < MIN_POINTS_LEVEL THEN [err |-> FALSE, del |-> <<>>]
              ELSE IF Cardinality(extreme_changes(dp, thr)) < MIN_EXTREME_CHANGES
                   THEN [err |-> FALSE, del |-> <<>>]
              ELSE Apply(LAMBDA segs :
                             IF Len(segs) <= 1 THEN [err |-> FALSE, del |-> <<>>]
                             ELSE IF RIsZero(segs[1].avg_value)
                                  THEN [err |-> TRUE, del |-> <<>>]
                             ELSE [err |-> FALSE,
                                   del |-> LevelMarks(segs, 2, segs[1].avg_value)],
                         sorted_segments(dp, thr)),
          data_points(tbl, m, c))

level_shift_candidates(tbl, metric, thr) ==
    CollectMetrics(tbl,
                   [mc \in {metric} \X Countries |->
                        level_shift_country(tbl, mc[1], mc[2], thr)],
                   <<metric>>, 1)

(***************************************************************************)
(* The three remediation filters as operations on the table.  A filter     *)
(* collects its candidates from the table as it is at the start (every     *)
(* SELECT precedes the first DELETE), then, in a live run with at least    *)
(* one candidate, issues one DELETE per candidate and commits.  A          *)
(* ZeroDivisionError during the scan leaves the function before any DELETE.*)
(***************************************************************************)
\* filter_bad_data / filter_level_shifts:
\*   return total_deleted if not dry_run else len(deletion_candidates)
\* where total_deleted counts the DELETE statements issued.
ReturnDeleted(cands, dry_run) ==
    IF dry_run THEN Len(cands)
    ELSE IF cands # <<>> THEN Len(cands) ELSE 0

\* filter_outliers_selective:
\*   return len(all_deletions) if not dry_run else len(all_deletions)
ReturnOutliers(cands, dry_run) == Len(cands)

\* Mutation: the deletion block is not guarded by "not dry_run".
TableAfterFilter_IgnoresDryRun(tbl, cands, dry_run) ==
    IF cands # <<>> THEN DeleteAll(tbl, cands, 1) ELSE tbl

TableAfterFilter(tbl, cands, dry_run) ==
    IF ~dry_run /\ cands # <<>> THEN DeleteAll(tbl, cands, 1) ELSE tbl

ZeroDivision == "ZeroDivisionError"

RunFilter(op, metrics, thr, dry_run, res, ret) ==
    /\ before' = economic_data
    /\ IF res.err
       THEN /\ economic_data' = economic_data
            /\ last' = [op |-> op, arg |-> [metrics |-> metrics, threshold_pct |-> thr,
                                            dry_run |-> dry_run],
                        ret |-> <<>>, err |-> ZeroDivision]
       ELSE /\ economic_data' = TableAfterFilter(economic_data, res.del, dry_run)
            /\ last' = [op |-> op, arg |-> [metrics |-> metrics, threshold_pct |-> thr,
                                            dry_run |-> dry_run],
                        ret |-> <<ret>>, err |-> NoError]
    /\ UNCHANGED <<clientVars, splitVars>>

filter_bad_data(metrics, thr, dry_run) ==
    \E res \in {bad_data_candidates(economic_data, metrics, thr)} :
        RunFilter("filter_bad_data", metrics, thr, dry_run, res,
                      ReturnDeleted(res.del, dry_run))

filter_outliers_selective(metrics, thr, dry_run) ==
    \E res \in {outliers_candidates(economic_data, metrics, thr)} :
        RunFilter("filter_outliers_selective", metrics, thr, dry_run, res,
                  ReturnOutliers(res.del, dry_run))

filter_level_shifts(metric, thr, dry_run) ==
    \E res \in {level_shift_candidates(economic_data, metric, thr)} :
        RunFilter("filter_level_shifts", <<metric>>, thr, dry_run, res,
                  ReturnDeleted(res.del, dry_run))

(***************************************************************************)
(* Remediation scenario: the table holds quarterly series that earlier     *)
(* ingest runs stored, and the filters run on it in any order.             *)
(***************************************************************************)
MaxSeriesLen == 10
ShortLens == {3, 4}
ShortValues == {0, 1, 2}
LongValues == {2, 3}
Thresholds == {20}

\* The k-th quarter counted from 2003-Q1.
QuarterAt(k) == <<2003 + ((k - 1) \div 4), ((k - 1) % 4) + 1>>

SeriesRows(c, m, vals) ==
    {Row(c, QuarterAt(i), m, R(vals[i]), "USD_PPP", "OECD") : i \in 1..Len(vals)}

MaxShifts == 2

\* Number of positions where a series changes value.
Shifts(vals) == Cardinality({i \in 2..Len(vals) : vals[i] # vals[i-1]})

\* Short series of any shape, and long series (long enough for the level
\* shift filter) made of at most MaxShifts + 1 constant runs.
MainSeries ==
    UNION {[1..n -> ShortValues] : n \in ShortLens}
    \cup UNION {{s \in [1..n -> LongValues] : Shifts(s) <= MaxShifts} :
                n \in MIN_POINTS_LEVEL..MaxSeriesLen}

FilterMetricLists ==
    {<<"real_gdp">>, <<"real_gdp", "real_gdp">>, <<"real_gdp", "gdp_per_capita">>}

\* No exception, no response.
None == [kind |-> "None", status |-> 0]

ClientIdle ==
    /\ fetch_pc = "idle"
    /\ retries = 0
    /\ attempt = 0
    /\ last_exception = None
    /\ response = None
    /\ requests = <<>>
    /\ sleeps = <<>>

\* split_into_batches is not running.
SplitIdle ==
    /\ split_pc = "idle"
    /\ split_arg = <<>>
    /\ current_year = 0
    /\ current_quarter = 0
    /\ split_batches = <<>>

InitFilter ==
    /\ \E s1 \in MainSeries :
          economic_data = SeriesRows("Austria", "real_gdp", s1)
                          \cup SeriesRows("Ireland", "real_gdp", <<1, 1, 1>>)
                          \cup SeriesRows("Austria", "gdp_per_capita", <<2, 1, 2, 2>>)
    /\ before = economic_data
    /\ last = NoOp
    /\ runs = 0
    /\ ClientIdle
    /\ SplitIdle

FilterBadData ==
    /\ Idle
    /\ \E metrics \in FilterMetricLists, thr \in Thresholds, dry_run \in BOOLEAN :
        filter_bad_data(metrics, thr, dry_run)
    /\ UNCHANGED runs

FilterOutliersSelective ==
    /\ Idle
    /\ \E metrics \in FilterMetricLists, thr \in Thresholds, dry_run \in BOOLEAN :
        filter_outliers_selective(metrics, thr, dry_run)
    /\ UNCHANGED runs

FilterLevelShifts ==
    /\ Idle
    /\ \E metric \in {"real_gdp", "gdp_per_capita"}, thr \in Thresholds, dry_run \in BOOLEAN :
        filter_level_shifts(metric, thr, dry_run)
    /\ UNCHANGED runs

\* The script (or request handler) has returned; its connection is closed.
ScriptExit ==
    /\ ~Idle
    /\ last' = NoOp
    /\ before' = economic_data
    /\ UNCHANGED <<economic_data, runs, clientVars, splitVars>>

NextFilter ==
    \/ FilterBadData
    \/ FilterOutliersSelective
    \/ FilterLevelShifts
    \/ ScriptExit

SpecFilter == InitFilter /\ [][NextFilter]_vars

(***************************************************************************)
(* oecd/data_configs.py, oecd/parser.py, oecd/fetcher.py                   *)
(***************************************************************************)
\* DATA_CONFIGS entries used here: metric_name, unit, source.
get_config(config_name) ==
    IF config_name = "gdp_per_capita"
    THEN [metric_name |-> "gdp_per_capita", unit |-> "USD_PPP", source |-> "OECD"]
    ELSE IF config_name = "population"
    THEN [metric_name |-> "population", unit |-> "persons", source |-> "OECD"]
    ELSE IF config_name = "savings_rate"
    THEN [metric_name |-> "savings_rate", unit |-> "percent", source |-> "OECD"]
    ELSE [metric_name |-> "disposable_income_per_capita", unit |-> "USD_PPP",
          source |-> "OECD"]

\* OECDDataParser._standardize_country_name over COUNTRY_NAMES: a known code
\* or name maps to the name, anything else is returned as it is.
standardize_country_name(country_raw) ==
    IF country_raw = "AUT" THEN "Austria"
    ELSE IF country_raw = "IRL" THEN "Ireland"
    ELSE country_raw

\* Mutation: forecast rows pass the status filter.
allowed_statuses_WithForecast(filter_status, include_provisional) ==
    IF filter_status
    THEN (IF include_provisional THEN {"A", "E", "P", "F"} ELSE {"A", "E", "F"})
    ELSE {}

\* fetch_and_upsert: allowed_statuses
allowed_statuses(filter_status, include_provisional) ==
    IF filter_status
    THEN (IF include_provisional THEN {"A", "E", "P"} ELSE {"A", "E"})
    ELSE {}

\* A CSV row is [country, time_period, value, status] after .strip(); a
\* missing country is "", a missing period is <<>>; a value string is
\* <<"num", n>> (the decimal literal of n), <<"text", 0>> (not a number) or
\* <<"empty", 0>>.
IsEmpty(value_str) == value_str[1] = "empty"
IsFloat(value_str) == value_str[1] = "num"
float(value_str) == R(value_str[2])

\* The body of "for row in reader": the data point appended, if any.
parse_row(row, filter_status, allowed) ==
    IF row.country = "" \/ row.time_period = <<>> \/ IsEmpty(row.value)
    THEN <<>>
    ELSE IF filter_status /\ row.status \notin allowed THEN <<>>
    ELSE IF ~IsFloat(row.value) THEN <<>>
    ELSE <<[country |-> standardize_country_name(row.country),
            time_period |-> row.time_period,
            value |-> float(row.value),
            status |-> row.status]>>

RECURSIVE parse_csv(_, _, _)
parse_csv(csv, filter_status, allowed) ==
    IF csv = <<>> THEN <<>>
    ELSE parse_row(Head(csv), filter_status, allowed)
         \o parse_csv(Tail(csv), filter_status, allowed)

\* What one batch's fetch_csv yields: the CSV rows, or an exception.
BatchError == [ok |-> FALSE, csv |-> <<>>]
BatchCsv(csv) == [ok |-> TRUE, csv |-> csv]

\* The loop over batched_urls: a batch whose fetch or parse raises is
\* skipped, the points of the others are concatenated in batch order.
RECURSIVE all_data_points(_, _, _)
all_data_points(batches, filter_status, allowed) ==
    IF batches = <<>> THEN <<>>
    ELSE (IF ~Head(batches).ok THEN <<>>
          ELSE parse_csv(Head(batches).csv, filter_status, allowed))
         \o all_data_points(Tail(batches), filter_status, allowed)

\* Mutation: every point is counted as an insert.
RECURSIVE upsert_loop_AllInserts(_, _, _, _, _, _, _, _)
upsert_loop_AllInserts(tbl, points, i, metric_name, unit, source, insert_count, update_count) ==
    IF i > Len(points)
    THEN [tbl |-> tbl, insert_count |-> insert_count, update_count |-> update_count]
    ELSE LET point == points[i]
         IN  upsert_loop_AllInserts(
                 UpsertRow(tbl, point.country, point.time_period, metric_name,
                           point.value, unit, source),
                 points, i + 1, metric_name, unit, source,
                 insert_count + 1, update_count)

\* The loop of _upsert_to_database: table and counters after points[i..].
RECURSIVE upsert_loop(_, _, _, _, _, _, _, _)
upsert_loop(tbl, points, i, metric_name, unit, source, insert_count, update_count) ==
    IF i > Len(points)
    THEN [tbl |-> tbl, insert_count |-> insert_count, update_count |-> update_count]
    ELSE LET point == points[i]
             existing == HasKey(tbl, point.country, point.time_period, metric_name)
         IN  upsert_loop(UpsertRow(tbl, point.country, point.time_period, metric_name,
                                   point.value, unit, source),
                         points, i + 1, metric_name, unit, source,
                         IF existing THEN insert_count ELSE insert_count + 1,
                         IF existing THEN update_count + 1 ELSE update_count)

upsert_to_database(tbl, points, metric_name, unit, source) ==
    upsert_loop(tbl, points, 1, metric_name, unit, source, 0, 0)

NoCall == [points |-> <<>>, metric_name |-> "", unit |-> "", source |-> ""]

fetch_and_upsert(config_name, batches, dry_run, filter_status, include_provisional) ==
    \E points \in {all_data_points(batches, filter_status,
                                   allowed_statuses(filter_status, include_provisional))} :
    LET config == get_config(config_name)
        arg == [config_name |-> config_name, batches |-> batches, dry_run |-> dry_run,
                filter_status |-> filter_status,
                include_provisional |-> include_provisional]
        up == upsert_to_database(economic_data, points, config.metric_name,
                                 config.unit, config.source)
        result(ok, ins, upd, call) ==
            [op |-> "fetch_and_upsert", arg |-> arg,
             ret |-> <<[success |-> ok, points_fetched |-> Len(points),
                        points_inserted |-> ins, points_updated |-> upd,
                        upsert |-> call]>>,
             err |-> NoError]
    IN  /\ before' = economic_data
        /\ IF points = <<>>
           THEN /\ economic_data' = economic_data
                /\ last' = result(FALSE, 0, 0, NoCall)
           ELSE IF dry_run
           THEN /\ economic_data' = economic_data
                /\ last' = result(TRUE, 0, 0, NoCall)
           ELSE /\ economic_data' = up.tbl
                /\ last' = result(TRUE, up.insert_count, up.update_count,
                                  [points |-> points, metric_name |-> config.metric_name,
                                   unit |-> config.unit, source |-> config.source])
        /\ UNCHANGED <<clientVars, splitVars>>

(***************************************************************************)
(* archive/ingest_data.py                                                  *)
(***************************************************************************)
\* The body of "for row in reader" up to the float conversion.
ingest_row(row) ==
    IF row.country = "" \/ row.time_period = <<>> \/ IsEmpty(row.value)
    THEN <<>>
    ELSE IF ~IsFloat(row.value) THEN <<>>
    ELSE <<[country |-> row.country, time_period |-> row.time_period,
            value |-> float(row.value)]>>

RECURSIVE ingest_rows(_)
ingest_rows(csv) ==
    IF csv = <<>> THEN <<>> ELSE ingest_row(Head(csv)) \o ingest_rows(Tail(csv))

ingest_data(csv, metric_name, unit, source) ==
    \E points \in {ingest_rows(csv)} :
    LET up == upsert_to_database(economic_data, points, metric_name, unit, source)
    IN  /\ before' = economic_data
        /\ economic_data' = up.tbl
        /\ last' = [op |-> "ingest_data",
                    arg |-> [csv |-> csv, metric_name |-> metric_name,
                             unit |-> unit, source |-> source],
                    ret |-> <<[success |-> TRUE, rows_inserted |-> up.insert_count,
                               rows_updated |-> up.update_count,
                               upsert |-> [points |-> points, metric_name |-> metric_name,
                                           unit |-> unit, source |-> source]]>>,
                    err |-> NoError]
        /\ UNCHANGED <<clientVars, splitVars>>

(***************************************************************************)
(* Statements without an ON CONFLICT clause.                               *)
(***************************************************************************)
IntegrityError == "IntegrityError"

MetricRows(tbl, m) == {r \in tbl : r.metric_name = m}

\* Mutation: ORDER BY time_period only.
ordered_rows_ByPeriod(tbl, m) ==
    SortKeyed({[k |-> r.time_period \o <<CountryRank(r.country)>>, v |-> r] :
               r \in MetricRows(tbl, m)})

\* Rows of metric m in the order of ORDER BY country, time_period.
ordered_rows(tbl, m) ==
    SortKeyed({[k |-> <<CountryRank(r.country)>> \o r.time_period, v |-> r] :
               r \in MetricRows(tbl, m)})

\* INSERT INTO economic_data (...) VALUES (...): UNIQUE constraint failed on
\* an occupied key.
InsertRow(tbl, r) ==
    IF HasKey(tbl, r.country, r.time_period, r.metric_name)
    THEN [err |-> IntegrityError, tbl |-> tbl]
    ELSE [err |-> NoError, tbl |-> tbl \cup {r}]

\* cursor.executemany of the plain INSERT over records[i..].
RECURSIVE InsertMany(_, _, _)
InsertMany(tbl, records, i) ==
    IF i > Len(records) THEN [err |-> NoError, tbl |-> tbl]
    ELSE LET ins == InsertRow(tbl, records[i])
         IN  IF ins.err # NoError THEN ins ELSE InsertMany(ins.tbl, records, i + 1)

\* Mutation: the row is copied to the new period and the old one stays.
UpdatePeriod_KeepsOld(tbl, c, m, from, to) ==
    IF ~HasKey(tbl, c, from, m) THEN [err |-> NoError, tbl |-> tbl, rowcount |-> 0]
    ELSE IF HasKey(tbl, c, to, m) THEN [err |-> IntegrityError, tbl |-> tbl, rowcount |-> 0]
    ELSE [err |-> NoError,
          tbl |-> tbl \cup {[r EXCEPT !.time_period = to] :
                                r \in {x \in tbl : KeyOf(x) = <<c, from, m>>}},
          rowcount |-> 1]

\* UPDATE economic_data SET time_period = to WHERE country = c AND
\* metric_name = m AND time_period = from
UpdatePeriod(tbl, c, m, from, to) ==
    IF ~HasKey(tbl, c, from, m) THEN [err |-> NoError, tbl |-> tbl, rowcount |-> 0]
    ELSE IF HasKey(tbl, c, to, m) THEN [err |-> IntegrityError, tbl |-> tbl, rowcount |-> 0]
    ELSE [err |-> NoError,
          tbl |-> {IF KeyOf(r) = <<c, from, m>> THEN [r EXCEPT !.time_period = to] ELSE r :
                   r \in tbl},
          rowcount |-> 1]

\* Mutation: the conflict target is (country, time_period): the value of
\* every row of that country and period is overwritten.
UpsertValue_AnyMetric(tbl, c, p, m, v, u, s) ==
    {IF <<r.country, r.time_period>> = <<c, p>> THEN [r EXCEPT !.value = v] ELSE r :
     r \in tbl}
    \cup (IF HasKey(tbl, c, p, m) THEN {} ELSE {Row(c, p, m, v, u, s)})

\* INSERT ... ON CONFLICT(country, time_period, metric_name) DO UPDATE SET
\* value = excluded.value: an existing row keeps its unit and source.
UpsertValue(tbl, c, p, m, v, u, s) ==
    IF HasKey(tbl, c, p, m)
    THEN {IF KeyOf(r) = <<c, p, m>> THEN [r EXCEPT !.value = v] ELSE r : r \in tbl}
    ELSE tbl \cup {Row(c, p, m, v, u, s)}

\* executemany of the value-only upsert over records[i..] of metric m.
RECURSIVE UpsertValues(_, _, _, _, _, _)
UpsertValues(tbl, records, i, m, u, s) ==
    IF i > Len(records) THEN tbl
    ELSE UpsertValues(UpsertValue(tbl, records[i].country, records[i].time_period, m,
                                  records[i].value, u, s),
                      records, i + 1, m, u, s)

(***************************************************************************)
(* calculate_gdp_level.py                                                  *)
(***************************************************************************)
\* Mutation: the join compares the whole time_period.
YearOf_WholePeriod(p) == p

\* substr(time_period, 1, 4)
YearOf(p) == <<p[1], 0>>

\* The JOIN of gdp_per_capita with population on country and year, and the
\* record computed from each joined row.
gdp_level_records(tbl) ==
    SortKeyed({[k |-> <<CountryRank(j[1].country)>> \o j[1].time_period,
                v |-> Row(j[1].country, j[1].time_period, "gdp_level",
                          RMul(j[1].value, j[2].value), "USD",
                          "Calculated from OECD data")] :
               j \in {x \in MetricRows(tbl, "gdp_per_capita") \X MetricRows(tbl, "population") :
                        /\ x[1].country = x[2].country
                        /\ YearOf(x[1].time_period) = x[2].time_period}})

\* DELETE the gdp_level rows, INSERT the records, commit; an exception
\* leaves the transaction uncommitted.
calculate_gdp_level ==
    \E records \in {gdp_level_records(economic_data)} :
    LET ins == InsertMany({r \in economic_data : r.metric_name # "gdp_level"}, records, 1)
    IN  /\ before' = economic_data
        /\ economic_data' = IF ins.err = NoError THEN ins.tbl ELSE economic_data
        /\ last' = [op |-> "calculate_gdp_level", arg |-> <<>>, ret |-> <<>>,
                    err |-> ins.err]
        /\ UNCHANGED <<clientVars, splitVars>>

(***************************************************************************)
(* calculate_cumulative_return.py                                          *)
(***************************************************************************)
INDEX_BASE == 100

\* Mutation: the ratio is added to the index instead of multiplied.
next_cumulative_Additive(cumulative_value, current_value, previous_value) ==
    RAdd(cumulative_value, RDiv(current_value, previous_value))

\* cumulative_value * (current_value / previous_value)
next_cumulative(cumulative_value, current_value, previous_value) ==
    RMul(cumulative_value, RDiv(current_value, previous_value))

\* "for i, point in enumerate(data_points)" from position i, where
\* cumulative_value is the index of point i - 1.
RECURSIVE cumulative_loop(_, _, _, _)
cumulative_loop(country, dp, i, cumulative_value) ==
    IF i > Len(dp) THEN [err |-> NoError, out |-> <<>>]
    ELSE IF i > 1 /\ RIsZero(dp[i - 1].value) THEN [err |-> ZeroDivision, out |-> <<>>]
    ELSE LET value == IF i = 1 THEN R(INDEX_BASE)
                      ELSE next_cumulative(cumulative_value, dp[i].value, dp[i - 1].value)
             rest == cumulative_loop(country, dp, i + 1, value)
         IN  [err |-> rest.err,
              out |-> <<[country |-> country, time_period |-> dp[i].time_period,
                         value |-> value]>> \o rest.out]

\* "for country, data_points in country_data.items()" from country cs[i].
RECURSIVE cumulative_data(_, _, _, _)
cumulative_data(tbl, source_metric, cs, i) ==
    IF i > Len(cs) THEN [err |-> NoError, out |-> <<>>]
    ELSE LET one == cumulative_loop(cs[i], data_points(tbl, source_metric, cs[i]), 1,
                                    R(INDEX_BASE))
         IN  IF one.err # NoError THEN one
             ELSE LET rest == cumulative_data(tbl, source_metric, cs, i + 1)
                  IN  [err |-> rest.err, out |-> one.out \o rest.out]

\* f"Calculated from {source_metric}"
CalculatedFrom(source_metric) ==
    IF source_metric = "gdp_per_capita" THEN "Calculated from gdp_per_capita"
    ELSE IF source_metric = "population" THEN "Calculated from population"
    ELSE IF source_metric = "gdp_level" THEN "Calculated from gdp_level"
    ELSE "Calculated from real_gdp"

\* answer is what input() returns when the target metric already exists.
\* Every exception is caught: the function prints it and returns False
\* without committing.
calculate_cumulative_return(source_metric, target_metric, answer) ==
    LET found == MetricRows(economic_data, source_metric) # {}
        asked == found /\ MetricRows(economic_data, target_metric) # {}
        result(ok, rows) ==
            [op |-> "calculate_cumulative_return",
             arg |-> [source_metric |-> source_metric, target_metric |-> target_metric,
                      answer |-> IF asked THEN answer ELSE ""],
             ret |-> <<ok>>, err |-> NoError]
    IN  /\ before' = economic_data
        /\ UNCHANGED <<clientVars, splitVars>>
        /\ IF ~found
           THEN /\ economic_data' = economic_data
                /\ last' = result(FALSE, <<>>)
           ELSE \E res \in {cumulative_data(economic_data, source_metric,
                                            country_data(economic_data, source_metric), 1)} :
                IF res.err # NoError \/ (asked /\ answer \notin {"yes", "y"})
                THEN /\ economic_data' = economic_data
                     /\ last' = result(FALSE, <<>>)
                ELSE /\ economic_data' =
                           upsert_to_database(
                               {r \in economic_data : r.metric_name # target_metric},
                               res.out, target_metric, "index (base=100)",
                               CalculatedFrom(source_metric)).tbl
                     /\ last' = result(TRUE, res.out)

(***************************************************************************)
(* calculate_productivity_growth.py                                        *)
(***************************************************************************)
\* The loop over gdp_data from row i: a growth record for every row that
\* follows a row of the same country.
RECURSIVE growth_records(_, _)
growth_records(gdp_data, i) ==
    IF i > Len(gdp_data) THEN <<>>
    ELSE IF gdp_data[i].country # gdp_data[i - 1].country
    THEN growth_records(gdp_data, i + 1)
    ELSE LET previous_value == gdp_data[i - 1].value
             nominal_change == RSub(gdp_data[i].value, previous_value)
             pct_change == IF ~RIsZero(previous_value)
                           THEN RMul(RDiv(nominal_change, previous_value), R(100))
                           ELSE R(0)
         IN  <<[country |-> gdp_data[i].country, time_period |-> gdp_data[i].time_period,
                nominal_change |-> nominal_change, pct_change |-> pct_change]>>
             \o growth_records(gdp_data, i + 1)

RECURSIVE WithValue(_, _)
WithValue(records, field) ==
    IF records = <<>> THEN <<>>
    ELSE <<[country |-> Head(records).country, time_period |-> Head(records).time_period,
            value |-> Head(records)[field]]>> \o WithValue(Tail(records), field)

calculate_productivity_growth(dry_run) ==
    \E growth \in {growth_records(ordered_rows(economic_data, "gdp_per_capita"), 2)} :
    LET nominal == UpsertValues(economic_data, WithValue(growth, "nominal_change"), 1,
                                "productivity_growth", "USD_PPP", "Calculated")
        pct == UpsertValues(nominal, WithValue(growth, "pct_change"), 1,
                            "productivity_growth_pct", "percent", "Calculated")
    IN  /\ before' = economic_data
        /\ economic_data' = IF dry_run THEN economic_data ELSE pct
        /\ last' = [op |-> "calculate_productivity_growth", arg |-> [dry_run |-> dry_run],
                    ret |-> <<Len(growth), Len(growth)>>, err |-> NoError]
        /\ UNCHANGED <<clientVars, splitVars>>

(***************************************************************************)
(* calculate_savings_per_capita.py                                         *)
(***************************************************************************)
\* The INNER JOIN of savings_rate with disposable_income_per_capita and the
\* record computed from each joined row: (savings_rate / 100) * income.
savings_records(tbl) ==
    SortKeyed({[k |-> <<CountryRank(j[1].country)>> \o j[1].time_period,
                v |-> [country |-> j[1].country, time_period |-> j[1].time_period,
                       value |-> RMul(RDiv(j[1].value, R(100)), j[2].value)]] :
               j \in {x \in MetricRows(tbl, "savings_rate")
                             \X MetricRows(tbl, "disposable_income_per_capita") :
                        /\ x[1].country = x[2].country
                        /\ x[1].time_period = x[2].time_period}})

calculate_savings_per_capita(dry_run) ==
    \E records \in {savings_records(economic_data)} :
        /\ before' = economic_data
        /\ economic_data' =
              IF dry_run THEN economic_data
              ELSE UpsertValues(economic_data, records, 1, "savings_per_capita",
                                "USD_PPP", "Calculated")
        /\ last' = [op |-> "calculate_savings_per_capita", arg |-> [dry_run |-> dry_run],
                    ret |-> <<Len(records)>>, err |-> NoError]
        /\ UNCHANGED <<clientVars, splitVars>>

(***************************************************************************)
(* fix_quarter_mislabeling.py, delete_specific_quarters.py,                *)
(* remove_bad_countries.py                                                 *)
(***************************************************************************)
P2025Q3 == <<2025, 3>>
P2005Q4 == <<2005, 4>>

\* Mutation: the 2005-Q4 row is never seen.
has_2005q4_Never(tbl, country, metric_name) == FALSE

\* SELECT COUNT(*) ... WHERE country = ? AND metric_name = ? AND
\* time_period = '2005-Q4' is positive.
has_2005q4(tbl, country, metric_name) == HasKey(tbl, country, P2005Q4, metric_name)

\* "for country, metric_name, value in records": the 2025-Q3 rows read at
\* the start, in the order the SELECT returned them (each record touches
\* its own two keys only).
RECURSIVE fix_loop(_, _, _)
fix_loop(tbl, records, updated_count) ==
    IF records = {} THEN [err |-> NoError, tbl |-> tbl, updated_count |-> updated_count]
    ELSE LET rec == CHOOSE r \in records : TRUE
         IN  IF has_2005q4(tbl, rec.country, rec.metric_name)
             THEN fix_loop(DeleteKey(tbl, rec.country, P2025Q3, rec.metric_name),
                           records \ {rec}, updated_count + 1)
             ELSE LET upd == UpdatePeriod(tbl, rec.country, rec.metric_name,
                                          P2025Q3, P2005Q4)
                  IN  IF upd.err # NoError
                      THEN [err |-> upd.err, tbl |-> tbl, updated_count |-> updated_count]
                      ELSE fix_loop(upd.tbl, records \ {rec},
                                    updated_count + upd.rowcount)

\* An exception leaves the transaction uncommitted.
fix_quarter_mislabeling ==
    \E res \in {fix_loop(economic_data,
                         {r \in economic_data : r.time_period = P2025Q3}, 0)} :
        /\ before' = economic_data
        /\ economic_data' = IF res.err = NoError THEN res.tbl ELSE economic_data
        /\ last' = [op |-> "fix_quarter_mislabeling", arg |-> <<>>,
                    ret |-> <<res.updated_count>>, err |-> res.err]
        /\ UNCHANGED <<clientVars, splitVars>>

\* DELETE FROM economic_data WHERE country = ? AND time_period = ? for
\* bad_points[i..]; deleted_total sums cursor.rowcount.
RECURSIVE delete_loop(_, _, _, _)
delete_loop(tbl, bad_points, i, deleted_total) ==
    IF i > Len(bad_points) THEN [tbl |-> tbl, deleted_total |-> deleted_total]
    ELSE LET hit == {r \in tbl : r.country = bad_points[i][1]
                                  /\ r.time_period = bad_points[i][2]}
         IN  delete_loop(tbl \ hit, bad_points, i + 1, deleted_total + Cardinality(hit))

delete_quarters(bad_points) ==
    \E res \in {delete_loop(economic_data, bad_points, 1, 0)} :
        /\ before' = economic_data
        /\ economic_data' = res.tbl
        /\ last' = [op |-> "delete_quarters", arg |-> [bad_points |-> bad_points],
                    ret |-> <<res.deleted_total>>, err |-> NoError]
        /\ UNCHANGED <<clientVars, splitVars>>

BAD_COUNTRIES ==
    {"Colombia", "Greece", "South Africa", "Romania", "Luxembourg", "Saudi Arabia",
     "Ireland"}

\* DELETE FROM economic_data WHERE metric_name = 'real_gdp' AND country = ?
\* for every country of BAD_COUNTRIES.
remove_bad_countries ==
    LET hit == {r \in economic_data :
                   r.metric_name = "real_gdp" /\ r.country \in BAD_COUNTRIES}
    IN  /\ before' = economic_data
        /\ economic_data' = economic_data \ hit
        /\ last' = [op |-> "remove_bad_countries", arg |-> <<>>,
                    ret |-> <<Cardinality(hit)>>, err |-> NoError]
        /\ UNCHANGED <<clientVars, splitVars>>

(***************************************************************************)
(* Ingestion scenario: fetch_and_upsert and ingest_data run, in any order,  *)
(* on CSV rows of every shape for one period.                              *)
(***************************************************************************)
MaxCsvRows == 2
MaxBatches == 2

Statuses == {"A", "E", "P", "F", ""}

\* Well-formed rows of every status and the malformed rows parse_csv skips.
UpsertCsvRows ==
    [country : {"AUT"}, time_period : {P2025Q3}, value : {<<"num", 1>>},
     status : Statuses \ {"E"}]
    \cup {[country |-> "AUT", time_period |-> P2025Q3, value |-> <<"num", 2>>, status |-> "E"],
          [country |-> "Ireland", time_period |-> P2025Q3, value |-> <<"num", 1>>, status |-> "A"],
          [country |-> "", time_period |-> P2025Q3, value |-> <<"num", 1>>, status |-> "A"],
          [country |-> "AUT", time_period |-> <<>>, value |-> <<"num", 1>>, status |-> "A"],
          [country |-> "AUT", time_period |-> P2025Q3, value |-> <<"empty", 0>>, status |-> "A"],
          [country |-> "AUT", time_period |-> P2025Q3, value |-> <<"text", 0>>, status |-> "A"]}

SeqsUpTo(S, n) == UNION {[1..k -> S] : k \in 0..n}

\* A CSV row with country, period and a numeric value.
WellFormedRow(row) == row.country # "" /\ row.time_period # <<>> /\ row.value[1] = "num"

\* The rows that pass every test of the parser.
GoodCsvRows == {r \in UpsertCsvRows : WellFormedRow(r) /\ r.status \in {"A", "E"}}

\* Several batches: each one fails or yields a CSV of at most one good row.
BatchResults ==
    UNION {[1..k -> {BatchError} \cup {BatchCsv(csv) : csv \in SeqsUpTo(GoodCsvRows, 1)}] :
           k \in 2..MaxBatches}

\* The table holds one row that an earlier ingest_data run loaded from
\* another source.
InitUpsert ==
    /\ economic_data = {Row("Austria", P2025Q3, "gdp_per_capita", R(1), "EUR", "Eurostat")}
    /\ before = economic_data
    /\ last = NoOp
    /\ runs = 0
    /\ ClientIdle
    /\ SplitIdle

\* One batch (at most 30 countries are asked for), any CSV, any flags.
FetchAndUpsert ==
    /\ Idle
    /\ \E batch \in {BatchError} \cup {BatchCsv(csv) : csv \in SeqsUpTo(UpsertCsvRows, MaxCsvRows)},
       dry_run \in BOOLEAN, filter_status \in BOOLEAN, include_provisional \in BOOLEAN :
        fetch_and_upsert("gdp_per_capita", <<batch>>, dry_run, filter_status,
                         include_provisional)
    /\ UNCHANGED runs

\* Several batches, some of which fail, with the default flags.
FetchBatches ==
    /\ Idle
    /\ \E batches \in BatchResults, dry_run \in BOOLEAN :
        fetch_and_upsert("gdp_per_capita", batches, dry_run, TRUE, FALSE)
    /\ UNCHANGED runs

IngestData ==
    /\ Idle
    /\ \E csv \in SeqsUpTo({r \in UpsertCsvRows : r.status \in {"A", "E"}}, MaxCsvRows) :
        ingest_data(csv, "gdp_per_capita", "USD_PPP", "OECD")
    /\ UNCHANGED runs

NextUpsert == FetchAndUpsert \/ FetchBatches \/ IngestData \/ ScriptExit

SpecUpsert == InitUpsert /\ [][NextUpsert]_vars

(***************************************************************************)
(* app.py: the query API.  A request parameter that is absent is "" (a     *)
(* metric), <<>> (a list of countries, a date).  db_fails stands for any   *)
(* exception inside the handler's try block (database missing or locked). *)
(***************************************************************************)
Null == <<>>

\* MIN(time_period), MAX(time_period): NULL over no rows.
MinPeriod(rows) ==
    IF rows = {} THEN Null
    ELSE CHOOSE p \in {r.time_period : r \in rows} :
            \A r \in rows : ~LexLess(r.time_period, p)

MaxPeriod(rows) ==
    IF rows = {} THEN Null
    ELSE CHOOSE p \in {r.time_period : r \in rows} :
            \A r \in rows : ~LexLess(p, r.time_period)

ErrorResponse(status) == [status |-> status, body |-> [error |-> TRUE]]
Ok(body) == [status |-> 200, body |-> body]

\* Mutation: a failing request leaves the table truncated.
api_response_Truncating(op, arg, resp) ==
    /\ before' = economic_data
    /\ economic_data' = IF resp.status = 500 THEN {} ELSE economic_data
    /\ last' = [op |-> op, arg |-> arg, ret |-> <<resp>>, err |-> NoError]
    /\ UNCHANGED <<clientVars, splitVars>>

\* The handler returns its response; it has only executed SELECT statements.
api_response(op, arg, resp) ==
    /\ before' = economic_data
    /\ economic_data' = economic_data
    /\ last' = [op |-> op, arg |-> arg, ret |-> <<resp>>, err |-> NoError]
    /\ UNCHANGED <<clientVars, splitVars>>

\* GET /api/metrics: one element per (metric_name, unit, source) group.
get_metrics(db_fails) ==
    LET groups == {<<r.metric_name, r.unit, r.source>> : r \in economic_data}
        of(g) == {r \in economic_data : <<r.metric_name, r.unit, r.source>> = g}
        metrics == {[name |-> g[1], unit |-> g[2], source |-> g[3],
                     data_points |-> Cardinality(of(g)),
                     time_range |-> [start |-> MinPeriod(of(g)), end |-> MaxPeriod(of(g))]] :
                    g \in groups}
    IN  api_response("get_metrics", [db_fails |-> db_fails],
                     IF db_fails THEN ErrorResponse(500) ELSE Ok(metrics))

\* GET /api/countries?metric=
get_countries(metric, db_fails) ==
    LET rows == IF metric # "" THEN MetricRows(economic_data, metric) ELSE economic_data
        countries == {[name |-> c,
                       data_points |-> Cardinality({r \in rows : r.country = c})] :
                      c \in {r.country : r \in rows}}
    IN  api_response("get_countries", [metric |-> metric, db_fails |-> db_fails],
                     IF db_fails THEN ErrorResponse(500) ELSE Ok(countries))

\* The unit of the first row in ORDER BY country, time_period order.
FirstUnit(rows) ==
    IF rows = {} THEN "null"
    ELSE (CHOOSE r \in rows :
            \A x \in rows : ~LexLess(<<CountryRank(x.country)>> \o x.time_period,
                                     <<CountryRank(r.country)>> \o r.time_period)).unit

\* data[country]['time_series']: the rows of one country in time order.
TimeSeries(rows, c) ==
    SortKeyed({[k |-> r.time_period,
                v |-> [time_period |-> r.time_period, value |-> r.value]] :
               r \in {x \in rows : x.country = c}})

\* data[country]['data_points']: the joined rows of one country in time
\* order.
DataPoints(joined, c) ==
    SortKeyed({[k |-> j[1].time_period,
                v |-> [time_period |-> j[1].time_period, value1 |-> j[1].value,
                       value2 |-> j[2].value]] :
               j \in {x \in joined : x[1].country = c}})

\* GET /api/data?metric=&countries=&start_date=&end_date=
get_data(metric, countries, start_date, end_date, db_fails) ==
    LET rows == {r \in MetricRows(economic_data, metric) :
                    /\ (countries # <<>> /\ countries[1] # "") => r.country \in Range(countries)
                    /\ start_date # Null => ~LexLess(r.time_period, start_date)
                    /\ end_date # Null => ~LexLess(end_date, r.time_period)}
        data == {[country |-> c, time_series |-> TimeSeries(rows, c)] :
                 c \in {r.country : r \in rows}}
    IN  api_response("get_data",
                     [metric |-> metric, countries |-> countries, start_date |-> start_date,
                      end_date |-> end_date, db_fails |-> db_fails],
                     IF metric = "" THEN ErrorResponse(400)
                     ELSE IF db_fails THEN ErrorResponse(500)
                     ELSE Ok([metric |-> metric, unit |-> FirstUnit(rows), data |-> data]))

\* GET /api/correlate?metric1=&metric2=&countries=
correlate(metric1, metric2, countries, db_fails) ==
    LET joined == {j \in MetricRows(economic_data, metric1) \X MetricRows(economic_data, metric2) :
                      /\ j[1].country = j[2].country
                      /\ j[1].time_period = j[2].time_period
                      /\ (countries # <<>> /\ countries[1] # "") =>
                            j[1].country \in Range(countries)}
        m1 == {j[1] : j \in joined}
        other(r) == CHOOSE j \in joined : j[1] = r
        first == CHOOSE r \in m1 :
                    \A x \in m1 : ~LexLess(<<CountryRank(x.country)>> \o x.time_period,
                                           <<CountryRank(r.country)>> \o r.time_period)
        data == {[country |-> c, data_points |-> DataPoints(joined, c)] :
                 c \in {r.country : r \in m1}}
    IN  api_response("correlate",
                     [metric1 |-> metric1, metric2 |-> metric2, countries |-> countries,
                      db_fails |-> db_fails],
                     IF metric1 = "" \/ metric2 = "" THEN ErrorResponse(400)
                     ELSE IF db_fails THEN ErrorResponse(500)
                     ELSE Ok([metric1 |-> [name |-> metric1,
                                           unit |-> IF m1 = {} THEN "null" ELSE first.unit],
                              metric2 |-> [name |-> metric2,
                                           unit |-> IF m1 = {} THEN "null"
                                                    ELSE other(first)[2].unit],
                              data |-> data]))

\* GET /api/stats
get_stats(db_fails) ==
    api_response("get_stats", [db_fails |-> db_fails],
                 IF db_fails THEN ErrorResponse(500)
                 ELSE Ok([total_records |-> Cardinality(economic_data),
                          unique_metrics |-> Cardinality({r.metric_name : r \in economic_data}),
                          unique_countries |-> Cardinality({r.country : r \in economic_data}),
                          unique_periods |-> Cardinality({r.time_period : r \in economic_data}),
                          time_range |-> [start |-> MinPeriod(economic_data),
                                          end |-> MaxPeriod(economic_data)]]))

(***************************************************************************)
(* Life of the store: from the empty table that init_database.py creates,  *)
(* the scripts run one after another, in any order, and the web            *)
(* application answers requests in between.                                *)
(***************************************************************************)
MaxRuns == 5

\* What the OECD API serves for each configuration.
OecdRows(config_name) ==
    IF config_name = "gdp_per_capita"
    THEN {[country |-> "AUT", time_period |-> P2025Q3, value |-> <<"num", 2>>, status |-> "A"],
          [country |-> "AUT", time_period |-> P2005Q4, value |-> <<"num", 1>>, status |-> "A"]}
    ELSE IF config_name = "population"
    THEN {[country |-> "AUT", time_period |-> <<2025, 0>>, value |-> <<"num", 3>>, status |-> "A"],
          [country |-> "AUT", time_period |-> <<2005, 0>>, value |-> <<"num", 3>>, status |-> "A"]}
    ELSE IF config_name = "savings_rate"
    THEN {[country |-> "AUT", time_period |-> <<2025, 0>>, value |-> <<"num", 50>>, status |-> "A"]}
    ELSE {[country |-> "AUT", time_period |-> <<2025, 0>>, value |-> <<"num", 4>>, status |-> "A"]}

ConfigNames == {"gdp_per_capita", "population", "savings_rate", "disposable_income_per_capita"}

\* The CSV files of real_gdp that ingest_data.py is run on.
CsvOf(country, vals) ==
    [i \in 1..Len(vals) |->
        [country |-> country, time_period |-> QuarterAt(i), value |-> <<"num", vals[i]>>,
         status |-> ""]]

RealGdpFiles == {CsvOf("Austria", <<1, 2, 1>>), CsvOf("Ireland", <<1>>)}

Init ==
    /\ economic_data = {}
    /\ before = {}
    /\ last = NoOp
    /\ runs = 0
    /\ ClientIdle
    /\ SplitIdle

\* A script starts when none is running.
StartRun ==
    /\ Idle
    /\ runs < MaxRuns
    /\ runs' = runs + 1

FetchOecdData ==
    /\ StartRun
    /\ \E config_name \in ConfigNames :
       \E csv \in SeqsUpTo(OecdRows(config_name), MaxCsvRows) :
          fetch_and_upsert(config_name, <<BatchCsv(csv)>>, FALSE, TRUE, FALSE)

IngestCsv ==
    /\ StartRun
    /\ \E csv \in RealGdpFiles : ingest_data(csv, "real_gdp", "USD_PPP", "OECD")

CalculateGdpLevel == StartRun /\ calculate_gdp_level

CalculateCumulativeReturn ==
    /\ StartRun
    /\ \E answer \in {"yes", "no"} :
          calculate_cumulative_return("gdp_per_capita", "gdp_cumulative_return", answer)

CalculateProductivityGrowth ==
    /\ StartRun
    /\ \E dry_run \in BOOLEAN : calculate_productivity_growth(dry_run)

CalculateSavingsPerCapita ==
    /\ StartRun
    /\ \E dry_run \in BOOLEAN : calculate_savings_per_capita(dry_run)

RunFilterBadData ==
    /\ StartRun
    /\ \E thr \in Thresholds, dry_run \in BOOLEAN :
          filter_bad_data(<<"real_gdp">>, thr, dry_run)

RunFilterOutliersSelective ==
    /\ StartRun
    /\ \E thr \in Thresholds, dry_run \in BOOLEAN :
          filter_outliers_selective(<<"real_gdp">>, thr, dry_run)

RunFilterLevelShifts ==
    /\ StartRun
    /\ \E thr \in Thresholds, dry_run \in BOOLEAN :
          filter_level_shifts("real_gdp", thr, dry_run)

FixQuarterMislabeling == StartRun /\ fix_quarter_mislabeling

DeleteSpecificQuarters == StartRun /\ delete_quarters(<<<<"Austria", P2005Q4>>>>)

RemoveBadCountries == StartRun /\ remove_bad_countries

\* The web application serves requests between the runs of the scripts.
ApiMetrics == {"", "gdp_per_capita", "gdp_level"}
ApiCountries == {<<>>, <<"Austria">>}

GetMetrics ==
    /\ Idle
    /\ \E db_fails \in BOOLEAN : get_metrics(db_fails)
    /\ UNCHANGED runs

GetCountries ==
    /\ Idle
    /\ \E metric \in ApiMetrics, db_fails \in BOOLEAN : get_countries(metric, db_fails)
    /\ UNCHANGED runs

GetData ==
    /\ Idle
    /\ \E metric \in ApiMetrics, countries \in ApiCountries,
          dates \in {<<Null, Null>>, <<P2025Q3, Null>>, <<Null, P2005Q4>>},
          db_fails \in BOOLEAN :
          get_data(metric, countries, dates[1], dates[2], db_fails)
    /\ UNCHANGED runs

Correlate ==
    /\ Idle
    /\ \E metric1 \in {"", "gdp_per_capita"}, metric2 \in {"", "gdp_level"},
          countries \in ApiCountries, db_fails \in BOOLEAN :
          correlate(metric1, metric2, countries, db_fails)
    /\ UNCHANGED runs

GetStats ==
    /\ Idle
    /\ \E db_fails \in BOOLEAN : get_stats(db_fails)
    /\ UNCHANGED runs

Next ==
    \/ FetchOecdData
    \/ IngestCsv
    \/ CalculateGdpLevel
    \/ CalculateCumulativeReturn
    \/ CalculateProductivityGrowth
    \/ CalculateSavingsPerCapita
    \/ RunFilterBadData
    \/ RunFilterOutliersSelective
    \/ RunFilterLevelShifts
    \/ FixQuarterMislabeling
    \/ DeleteSpecificQuarters
    \/ RemoveBadCountries
    \/ GetMetrics
    \/ GetCountries
    \/ GetData
    \/ Correlate
    \/ GetStats
    \/ ScriptExit

Spec == Init /\ [][Next]_vars

(***************************************************************************)
(* Cumulative-return scenario: calculate_cumulative_return runs on stored  *)
(* quarterly and annual series, which fetches and deletions change between *)
(* runs.                                                                   *)
(***************************************************************************)
MaxCalcLen == 3
CalcValues == {0, 1, 2}

CalcSeries == UNION {[1..n -> CalcValues] : n \in 1..MaxCalcLen}

\* Annual rows of metric m, one per year from 2003.
AnnualRows(c, m, vals) ==
    {Row(c, <<2003 + i - 1, 0>>, m, R(vals[i]), "persons", "OECD") : i \in 1..Len(vals)}

\* python calculate_cumulative_return.py <source_metric> [target_metric]
DefaultTarget(source_metric) ==
    IF source_metric = "gdp_per_capita" THEN "gdp_per_capita_cumulative_return"
    ELSE "population_cumulative_return"

InitCalc ==
    /\ \E s1 \in CalcSeries, s2 \in {<<>>, <<2, 1>>} :
          economic_data = SeriesRows("Austria", "gdp_per_capita", s1)
                          \cup SeriesRows("Ireland", "gdp_per_capita", s2)
                          \cup AnnualRows("Austria", "population", <<1, 2>>)
    /\ before = economic_data
    /\ last = NoOp
    /\ runs = 0
    /\ ClientIdle
    /\ SplitIdle

CalcCumulativeReturn ==
    /\ Idle
    /\ \E source_metric \in {"gdp_per_capita", "population"}, answer \in {"yes", "no"} :
          calculate_cumulative_return(source_metric, DefaultTarget(source_metric), answer)
    /\ UNCHANGED runs

CalcFetch ==
    /\ Idle
    /\ \E k \in 1..2 :
          fetch_and_upsert("gdp_per_capita",
                           <<BatchCsv(<<[country |-> "AUT", time_period |-> QuarterAt(k),
                                         value |-> <<"num", 2>>, status |-> "A"]>>)>>,
                           FALSE, TRUE, FALSE)
    /\ UNCHANGED runs

CalcDeleteQuarters ==
    /\ Idle
    /\ delete_quarters(<<<<"Austria", QuarterAt(1)>>>>)
    /\ UNCHANGED runs

NextCalc == CalcCumulativeReturn \/ CalcFetch \/ CalcDeleteQuarters \/ ScriptExit

SpecCalc == InitCalc /\ [][NextCalc]_vars

(***************************************************************************)
(* Derivation scenario: the calculators of derived metrics run, in any     *)
(* order, on stored source series; between their runs the outlier filter   *)
(* removes source rows and the fetcher adds or revises population rows.    *)
(***************************************************************************)
MaxDeriveLen == 3
DeriveValues == {0, 1, 2}

DeriveSeries == UNION {[1..n -> DeriveValues] : n \in 1..MaxDeriveLen}

InitDerive ==
    /\ \E s1 \in DeriveSeries, s2 \in {<<>>, <<2, 1>>}, pop \in {<<>>, <<3>>} :
          economic_data =
              SeriesRows("Austria", "gdp_per_capita", s1)
              \cup SeriesRows("Ireland", "gdp_per_capita", s2)
              \cup AnnualRows("Austria", "population", pop)
              \cup {Row("Austria", <<2003, 0>>, "savings_rate", R(50), "percent", "OECD"),
                    Row("Austria", <<2003, 0>>, "disposable_income_per_capita", R(4),
                        "USD_PPP", "OECD"),
                    Row("Ireland", <<2003, 0>>, "savings_rate", R(10), "percent", "OECD")}
    /\ before = economic_data
    /\ last = NoOp
    /\ runs = 0
    /\ ClientIdle
    /\ SplitIdle

DeriveGdpLevel ==
    /\ Idle
    /\ calculate_gdp_level
    /\ UNCHANGED runs

DeriveProductivityGrowth ==
    /\ Idle
    /\ \E dry_run \in BOOLEAN : calculate_productivity_growth(dry_run)
    /\ UNCHANGED runs

DeriveSavingsPerCapita ==
    /\ Idle
    /\ \E dry_run \in BOOLEAN : calculate_savings_per_capita(dry_run)
    /\ UNCHANGED runs

\* python calculate_cumulative_return.py gdp_per_capita [target_metric]
DeriveCumulativeReturn ==
    /\ Idle
    /\ \E target_metric \in {DefaultTarget("gdp_per_capita"), "gdp_level"},
          answer \in {"yes", "no"} :
          calculate_cumulative_return("gdp_per_capita", target_metric, answer)
    /\ UNCHANGED runs

\* python filter_outliers_selective.py (default metrics, live)
DeriveFilterOutliers ==
    /\ Idle
    /\ \E thr \in Thresholds :
          filter_outliers_selective(<<"real_gdp", "gdp_per_capita">>, thr, FALSE)
    /\ UNCHANGED runs

DeriveFetchPopulation ==
    /\ Idle
    /\ \E v \in {3, 4} :
          fetch_and_upsert("population",
                           <<BatchCsv(<<[country |-> "AUT", time_period |-> <<2003, 0>>,
                                         value |-> <<"num", v>>, status |-> "A"]>>)>>,
                           FALSE, TRUE, FALSE)
    /\ UNCHANGED runs

NextDerive ==
    \/ DeriveGdpLevel
    \/ DeriveProductivityGrowth
    \/ DeriveSavingsPerCapita
    \/ DeriveCumulativeReturn
    \/ DeriveFilterOutliers
    \/ DeriveFetchPopulation
    \/ ScriptExit

SpecDerive == InitDerive /\ [][NextDerive]_vars

(***************************************************************************)
(* oecd/api_client.py: OECDAPIClient.fetch, one step per request and per   *)
(* wait.  An outcome of session.get is a response with a status code, a    *)
(* Timeout or another RequestException (ConnectionError).                  *)
(***************************************************************************)
RETRY_DELAY == 2

\* Up to the default max_retries of the client.
MaxRetries == 3
HttpStatuses == {200, 399, 400, 499, 500, 599}

Outcomes ==
    [kind : {"response"}, status : HttpStatuses]
    \cup {[kind |-> "Timeout", status |-> 0], [kind |-> "ConnectionError", status |-> 0]}

\* response.raise_for_status() raises HTTPError.
raise_for_status(status) == 400 <= status /\ status < 600

\* Mutation: status 400 is not taken for a client error.
is_client_error_Above400(status) == 400 < status /\ status < 500

\* 400 <= e.response.status_code < 500
is_client_error(status) == 400 <= status /\ status < 500

\* Mutation: the loop runs once more.
in_range_OneMore(a, r) == a < r + 2

\* attempt in range(retries + 1)
in_range(a, r) == a < r + 1

\* The exception that an outcome raises inside the try block.
ExceptionOf(outcome) ==
    IF outcome.kind = "response" THEN [kind |-> "HTTPError", status |-> outcome.status]
    ELSE outcome

InitFetch ==
    /\ economic_data = {}
    /\ before = {}
    /\ last = NoOp
    /\ runs = 0
    /\ ClientIdle
    /\ SplitIdle

\* fetch(url, retries=r) is called (retries=None takes self.max_retries).
FetchCall ==
    /\ fetch_pc = "idle"
    /\ \E r \in 0..MaxRetries : retries' = r
    /\ attempt' = 0
    /\ last_exception' = None
    /\ response' = None
    /\ requests' = <<>>
    /\ sleeps' = <<>>
    /\ fetch_pc' = "loop"
    /\ UNCHANGED <<storeVars, runs, splitVars>>

\* One iteration up to the wait: session.get, raise_for_status and the
\* except clauses.
SessionGet ==
    /\ fetch_pc = "loop"
    /\ in_range(attempt, retries)
    /\ \E outcome \in Outcomes :
          /\ requests' = Append(requests, outcome)
          /\ IF outcome.kind = "response" /\ ~raise_for_status(outcome.status)
             THEN /\ response' = outcome
                  /\ fetch_pc' = "returned"
                  /\ UNCHANGED <<attempt, last_exception>>
             ELSE /\ last_exception' = ExceptionOf(outcome)
                  /\ IF outcome.kind = "response" /\ is_client_error(outcome.status)
                     THEN /\ response' = ExceptionOf(outcome)
                          /\ fetch_pc' = "raised"
                          /\ UNCHANGED attempt
                     ELSE IF attempt < retries
                     THEN /\ fetch_pc' = "sleep"
                          /\ UNCHANGED <<attempt, response>>
                     ELSE /\ attempt' = attempt + 1
                          /\ fetch_pc' = "loop"
                          /\ UNCHANGED response
    /\ UNCHANGED <<storeVars, runs, splitVars, retries, sleeps>>

\* time.sleep(self.retry_delay * (attempt + 1)), then the next iteration.
Sleep ==
    /\ fetch_pc = "sleep"
    /\ sleeps' = Append(sleeps, RETRY_DELAY * (attempt + 1))
    /\ attempt' = attempt + 1
    /\ fetch_pc' = "loop"
    /\ UNCHANGED <<storeVars, runs, splitVars, retries, last_exception, response, requests>>

\* The loop is exhausted: raise last_exception.
RaiseLast ==
    /\ fetch_pc = "loop"
    /\ ~in_range(attempt, retries)
    /\ response' = last_exception
    /\ fetch_pc' = "raised"
    /\ UNCHANGED <<storeVars, runs, splitVars, retries, attempt, last_exception, requests, sleeps>>

\* The caller has taken the response or the exception.
FetchExit ==
    /\ fetch_pc \in {"returned", "raised"}
    /\ fetch_pc' = "idle"
    /\ retries' = 0
    /\ attempt' = 0
    /\ last_exception' = None
    /\ response' = None
    /\ requests' = <<>>
    /\ sleeps' = <<>>
    /\ UNCHANGED <<storeVars, runs, splitVars>>

NextFetch == FetchCall \/ SessionGet \/ Sleep \/ RaiseLast \/ FetchExit

SpecFetch == InitFetch /\ [][NextFetch]_vars

\* session.get returns or raises within its timeout, time.sleep returns, and
\* the code after the loop runs.
SpecFetchFair ==
    SpecFetch /\ WF_vars(SessionGet) /\ WF_vars(Sleep) /\ WF_vars(RaiseLast)

(***************************************************************************)
(* backfill_oecd_data.py: split_into_batches, one step per iteration of    *)
(* its while loop.  A period 'YYYY-Qn' is the pair <<YYYY, n>> that        *)
(* split('-Q') and int() make of it.                                       *)
(***************************************************************************)
MaxSplitYears == 3
MaxBatchYears == 2

\* The periods --start and --end are taken from.
SplitPeriods == (2000..(2000 + MaxSplitYears - 1)) \X (1..4)

\* while current_year < end_year or (current_year == end_year and
\*       current_quarter <= end_quarter)
loop_condition(year, quarter, end_period) ==
    year < end_period[1] \/ (year = end_period[1] /\ quarter <= end_period[2])

\* Mutation: the batch end is not capped at the overall end period.
batch_end_Uncapped(year, quarter, batch_years, end_period) ==
    <<year + batch_years, quarter>>

\* batch_years later, but not beyond the overall end period.
batch_end(year, quarter, batch_years, end_period) ==
    LET batch_end_year == year + batch_years
        batch_end_quarter == quarter
    IN  IF \/ batch_end_year > end_period[1]
           \/ (batch_end_year = end_period[1] /\ batch_end_quarter > end_period[2])
        THEN end_period
        ELSE <<batch_end_year, batch_end_quarter>>

\* "Move to next batch": the quarter after the batch end.
next_batch_start(end_of_batch) ==
    IF end_of_batch[2] + 1 > 4 THEN <<end_of_batch[1] + 1, 1>>
    ELSE <<end_of_batch[1], end_of_batch[2] + 1>>

InitSplit ==
    /\ economic_data = {}
    /\ before = {}
    /\ last = NoOp
    /\ runs = 0
    /\ ClientIdle
    /\ SplitIdle

\* main calls split_into_batches(args.start, args.end, args.batch_years).
SplitCall ==
    /\ split_pc = "idle"
    /\ \E start_period \in SplitPeriods, end_period \in SplitPeriods,
          batch_years \in 1..MaxBatchYears :
          /\ split_arg' = [start_period |-> start_period, end_period |-> end_period,
                           batch_years |-> batch_years]
          /\ current_year' = start_period[1]
          /\ current_quarter' = start_period[2]
    /\ split_batches' = <<>>
    /\ split_pc' = "loop"
    /\ UNCHANGED <<storeVars, runs, clientVars>>

\* One iteration of the while loop.
SplitIterate ==
    /\ split_pc = "loop"
    /\ loop_condition(current_year, current_quarter, split_arg.end_period)
    /\ \E e \in {batch_end(current_year, current_quarter, split_arg.batch_years,
                            split_arg.end_period)} :
          /\ split_batches' = Append(split_batches,
                                     <<<<current_year, current_quarter>>, e>>)
          /\ current_year' = next_batch_start(e)[1]
          /\ current_quarter' = next_batch_start(e)[2]
    /\ UNCHANGED <<storeVars, runs, clientVars, split_pc, split_arg>>

\* The loop condition fails: return batches.
SplitReturn ==
    /\ split_pc = "loop"
    /\ ~loop_condition(current_year, current_quarter, split_arg.end_period)
    /\ split_pc' = "returned"
    /\ UNCHANGED <<storeVars, runs, clientVars, split_arg, current_year, current_quarter,
                   split_batches>>

\* main has taken the batches.
SplitExit ==
    /\ split_pc = "returned"
    /\ split_pc' = "idle"
    /\ split_arg' = <<>>
    /\ current_year' = 0
    /\ current_quarter' = 0
    /\ split_batches' = <<>>
    /\ UNCHANGED <<storeVars, runs, clientVars>>

NextSplit == SplitCall \/ SplitIterate \/ SplitReturn \/ SplitExit

SpecSplit == InitSplit /\ [][NextSplit]_vars

\* The interpreter keeps executing the loop and the return.
SpecSplitFair == SpecSplit /\ WF_vars(SplitIterate) /\ WF_vars(SplitReturn)

(***************************************************************************)
(* oecd/query_builder.py: build_batched_urls.  A URL is the record of the  *)
(* parts it is assembled from; '+'.join(countries) is the list itself      *)
(* (no country code contains '+').                                         *)
(***************************************************************************)
MaxConfigCountries == 4
MaxBatchSize == 3

\* The beginning of ALL_COUNTRIES.
CountryCodes == <<"AUS", "AUT", "BEL", "CAN", "CHL", "COL">>

\* The 'countries' entry of a configuration: distinct codes in any order.
ConfigCountryLists ==
    {l \in SeqsUpTo({CountryCodes[i] : i \in 1..MaxConfigCountries}, MaxConfigCountries) :
        \A i, j \in 1..Len(l) : l[i] = l[j] => i = j}

build_url(dataset_path, data_selection, start_period, end_period) ==
    [dataset_path |-> dataset_path, data_selection |-> data_selection,
     startPeriod |-> start_period, endPeriod |-> end_period,
     format |-> "csvfilewithlabels", dimensionAtObservation |-> "AllDimensions"]

\* country_list = countries if countries else config['countries']
build_from_config(config_name, config_countries, start_period, end_period, countries) ==
    build_url(config_name, IF countries # <<>> THEN countries ELSE config_countries,
              start_period, end_period)

\* Mutation: the slice takes one country more.
batch_slice_Overlapping(all_countries, i, batch_size) ==
    SubSeq(all_countries, i + 1,
           IF i + batch_size + 1 < Len(all_countries) THEN i + batch_size + 1
           ELSE Len(all_countries))

\* all_countries[i:i + batch_size]
batch_slice(all_countries, i, batch_size) ==
    SubSeq(all_countries, i + 1,
           IF i + batch_size < Len(all_countries) THEN i + batch_size
           ELSE Len(all_countries))

\* "for i in range(0, len(all_countries), batch_size)" from i on.
RECURSIVE batched_urls_loop(_, _, _, _, _, _)
batched_urls_loop(config_name, all_countries, start_period, end_period, batch_size, i) ==
    IF i >= Len(all_countries) THEN <<>>
    ELSE LET batch == batch_slice(all_countries, i, batch_size)
             batch_num == (i \div batch_size) + 1
             url == build_from_config(config_name, all_countries, start_period,
                                      end_period, batch)
         IN  <<[batch_num |-> batch_num, url |-> url, batch |-> batch]>>
             \o batched_urls_loop(config_name, all_countries, start_period, end_period,
                                  batch_size, i + batch_size)

build_batched_urls(config_name, all_countries, start_period, end_period, batch_size) ==
    /\ before' = economic_data
    /\ economic_data' = economic_data
    /\ last' = [op |-> "build_batched_urls",
                arg |-> [config_name |-> config_name, countries |-> all_countries,
                         start_period |-> start_period, end_period |-> end_period,
                         batch_size |-> batch_size],
                ret |-> <<batched_urls_loop(config_name, all_countries, start_period,
                                            end_period, batch_size, 0)>>,
                err |-> NoError]
    /\ UNCHANGED <<clientVars, splitVars>>

InitUrls ==
    /\ economic_data = {}
    /\ before = {}
    /\ last = NoOp
    /\ runs = 0
    /\ ClientIdle
    /\ SplitIdle

\* fetch_and_upsert builds the URLs of its batches.
BuildBatchedUrls ==
    /\ Idle
    /\ \E all_countries \in ConfigCountryLists, batch_size \in 1..MaxBatchSize :
          build_batched_urls("gdp_per_capita", all_countries, <<2024, 1>>, <<2025, 3>>,
                             batch_size)
    /\ UNCHANGED runs

NextUrls == BuildBatchedUrls \/ ScriptExit

SpecUrls == InitUrls /\ [][NextUrls]_vars

(***************************************************************************)
(* Claims about the remediation filters (checked under SpecFilter).        *)
(***************************************************************************)
FilterOps == {"filter_bad_data", "filter_outliers_selective", "filter_level_shifts"}

LiveFilterRan == last.op \in FilterOps /\ ~last.arg.dry_run
DryFilterRan == last.op \in FilterOps /\ last.arg.dry_run

\* C3: a live run of filter_bad_data, filter_outliers_selective or
\* filter_level_shifts only deletes rows: every row of the table after the
\* run is a row of the table before it (nothing inserted, no value or period
\* changed), and every row of a metric that is not being filtered survives.
C3_LiveFilterOnlyDeletes ==
    LiveFilterRan =>
        /\ economic_data \subseteq before
        /\ \A r \in before :
              r.metric_name \notin Range(last.arg.metrics) => r \in economic_data

\* A live level-shift run removed rows of its metric while the table holds a
\* row of another metric at a period it deleted.
C3_Witness ==
    /\ LiveFilterRan
    /\ last.op = "filter_level_shifts"
    /\ economic_data # before
    /\ \E d \in before \ economic_data, r \in economic_data :
          /\ r.metric_name # d.metric_name
          /\ r.country = d.country
          /\ r.time_period = d.time_period

\* The value the same call returns with dry_run=False on the table tbl.
LiveReturn(op, tbl, arg) ==
    IF op = "filter_bad_data"
    THEN ReturnDeleted(bad_data_candidates(tbl, arg.metrics, arg.threshold_pct).del, FALSE)
    ELSE IF op = "filter_outliers_selective"
    THEN ReturnOutliers(outliers_candidates(tbl, arg.metrics, arg.threshold_pct).del, FALSE)
    ELSE ReturnDeleted(level_shift_candidates(tbl, arg.metrics[1], arg.threshold_pct).del, FALSE)

\* C5: a dry run of any of the three filters leaves the table unchanged and
\* returns the number the live run of the same call returns on that table.
C5_DryRunMatchesLive ==
    (DryFilterRan /\ last.err = NoError) =>
        /\ economic_data = before
        /\ last.ret = <<LiveReturn(last.op, before, last.arg)>>

\* A dry run reported at least one observation.
C5_Witness ==
    /\ DryFilterRan
    /\ last.err = NoError
    /\ last.ret[1] > 0

\* C6: in a live run the number returned is the number of rows removed
\* (row count before minus row count after).
C6_ReturnIsRowsRemoved ==
    (LiveFilterRan /\ last.err = NoError) =>
        last.ret = <<Cardinality(before) - Cardinality(economic_data)>>

(***************************************************************************)
(* Claims about the upsert path (checked under SpecUpsert).                *)
(***************************************************************************)
UpsertRan ==
    /\ last.op \in {"fetch_and_upsert", "ingest_data"}
    /\ last.ret[1].upsert.points # <<>>

\* Position of the last point of the call with the same (country, period)
\* as the point at position i.
LastWithKey(points, i) ==
    CHOOSE j \in i..Len(points) :
        /\ points[j].country = points[i].country
        /\ points[j].time_period = points[i].time_period
        /\ \A k \in (j + 1)..Len(points) :
              ~(points[k].country = points[i].country
                /\ points[k].time_period = points[i].time_period)

\* C2: after _upsert_to_database(points, metric, unit, source) (also the
\* loop of ingest_data), for every key of points the table holds exactly one
\* row of that metric, with the value of the last point of that key and the
\* call's unit and source; rows of every other key are as before.
C2_UpsertLastWriteWins ==
    UpsertRan =>
        LET call == last.ret[1].upsert
            InCall(r) ==
                /\ r.metric_name = call.metric_name
                /\ \E i \in 1..Len(call.points) :
                      /\ call.points[i].country = r.country
                      /\ call.points[i].time_period = r.time_period
        IN  /\ \A i \in 1..Len(call.points) :
                  {r \in economic_data :
                      KeyOf(r) = <<call.points[i].country, call.points[i].time_period,
                                   call.metric_name>>}
                  = {Row(call.points[i].country, call.points[i].time_period,
                         call.metric_name,
                         call.points[LastWithKey(call.points, i)].value,
                         call.unit, call.source)}
            /\ {r \in economic_data : ~InCall(r)} = {r \in before : ~InCall(r)}

\* One call wrote the same key twice with different values over an existing
\* row, while a row of another key was in the table.
C2_Witness ==
    /\ UpsertRan
    /\ \E i, j \in 1..Len(last.ret[1].upsert.points) :
          /\ i < j
          /\ last.ret[1].upsert.points[i].country = last.ret[1].upsert.points[j].country
          /\ last.ret[1].upsert.points[i].value # last.ret[1].upsert.points[j].value
          /\ \E r \in before :
                /\ r.country = last.ret[1].upsert.points[i].country
                /\ r.source # last.ret[1].upsert.source
                /\ r.unit # last.ret[1].upsert.unit
    /\ \E r \in before : \A i \in 1..Len(last.ret[1].upsert.points) :
          r.country # last.ret[1].upsert.points[i].country

\* The CSV rows of the batches that were fetched and parsed.
FetchedRows(batches) ==
    UNION {Range(batches[i].csv) : i \in {k \in 1..Len(batches) : batches[k].ok}}

\* A CSV row with country, period and a numeric value.
WellFormed(row) == row.country # "" /\ row.time_period # <<>> /\ IsFloat(row.value)

\* C9: with filter_status=True every row fetch_and_upsert writes comes from
\* a CSV row whose OBS_STATUS is 'A' or 'E' (or 'P' with
\* include_provisional); with filter_status=False every well-formed CSV row
\* is accepted, whatever its status.
C9_StatusFilter ==
    (last.op = "fetch_and_upsert" /\ ~last.arg.dry_run) =>
        LET rows == FetchedRows(last.arg.batches)
            metric == get_config(last.arg.config_name).metric_name
            Accepts(st) ==
                IF last.arg.filter_status
                THEN st \in {"A", "E"} \/ (last.arg.include_provisional /\ st = "P")
                ELSE TRUE
            From(r, row) ==
                /\ WellFormed(row)
                /\ r.country = standardize_country_name(row.country)
                /\ r.time_period = row.time_period
                /\ r.value = R(row.value[2])
                /\ r.metric_name = metric
        IN  /\ \A r \in economic_data \ before :
                  \E row \in rows : Accepts(row.status) /\ From(r, row)
            /\ ~last.arg.filter_status =>
                  \A row \in rows : WellFormed(row) =>
                      HasKey(economic_data, standardize_country_name(row.country),
                             row.time_period, metric)

\* A filtered fetch stored a provisional row and dropped a forecast row and
\* a row without status.
C9_Witness ==
    /\ last.op = "fetch_and_upsert"
    /\ ~last.arg.dry_run
    /\ last.arg.filter_status
    /\ last.arg.include_provisional
    /\ economic_data # before
    /\ \E row \in FetchedRows(last.arg.batches) : row.status = "P"
    /\ \E row \in FetchedRows(last.arg.batches) : row.status \in {"F", ""}
    /\ Len(last.ret[1].upsert.points) = 1

(***************************************************************************)
(* Claims about the store as a whole (checked under Spec).                 *)
(***************************************************************************)
\* C1: in every reachable state the table has at most one row per
\* (country, time_period, metric_name), and no script - upsert, derived
\* write (the plain INSERT of calculate_gdp_level included), remediation
\* delete or the 2025-Q3 to 2005-Q4 relabel - has failed with a primary-key
\* conflict.
C1_PrimaryKeyHolds ==
    /\ \A r1, r2 \in economic_data : KeyOf(r1) = KeyOf(r2) => r1 = r2
    /\ last.err # IntegrityError

\* calculate_gdp_level has replaced existing gdp_level rows by newly inserted
\* ones, after the relabel had moved the 2025-Q3 source row onto 2005-Q4.
C1_Witness ==
    /\ last.op = "calculate_gdp_level"
    /\ last.err = NoError
    /\ \E r \in before : r.metric_name = "gdp_level"
    /\ \E r \in economic_data :
          r.metric_name = "gdp_level" /\ r.time_period = P2005Q4 /\ r.value = R(6)

ApiOps == {"get_metrics", "get_countries", "get_data", "correlate", "get_stats"}

\* C4: a request to /api/metrics, /api/countries, /api/data, /api/correlate
\* or /api/stats, whatever its parameters and whether it answers 200, 400
\* or 500, leaves the table exactly as it was.
C4_ApiReadOnly ==
    last.op \in ApiOps => economic_data = before

\* /api/correlate answered 200 with joined data points.
C4_Witness ==
    /\ last.op = "correlate"
    /\ last.ret[1].status = 200
    /\ last.ret[1].body.data # {}
    /\ economic_data # {}

(***************************************************************************)
(* Claims about OECDAPIClient.fetch (checked under SpecFetchFair).         *)
(***************************************************************************)
IsSuccess(outcome) == outcome.kind = "response" /\ outcome.status < 400

IsClientError(outcome) == outcome.kind = "response" /\ outcome.status \in 400..499

IsServerError(outcome) == outcome.kind = "response" /\ outcome.status \in 500..599

Retryable(outcome) ==
    outcome.kind \in {"Timeout", "ConnectionError"} \/ IsServerError(outcome)

FetchDone == fetch_pc \in {"returned", "raised"}

\* At most retries + 1 requests; a successful request is the last one and
\* its response is what fetch returns; after retries + 1 retryable failures
\* the exception raised is that of the last request.
C7_Safety ==
    /\ Len(requests) <= retries + 1
    /\ \A i \in 1..Len(requests) :
          IsSuccess(requests[i]) =>
              i = Len(requests) /\ fetch_pc = "returned" /\ response = requests[i]
    /\ fetch_pc = "returned" => requests # <<>> /\ IsSuccess(requests[Len(requests)])
    /\ (/\ fetch_pc = "raised"
        /\ Len(requests) = retries + 1
        /\ \A i \in 1..Len(requests) : Retryable(requests[i]))
          => response = ExceptionOf(requests[Len(requests)])

\* C7: fetch(url, retries=r), r >= 0, terminates after at most r + 1
\* requests; it returns the response of the first successful request and
\* sends nothing after it; when all r + 1 requests fail with retryable
\* errors it raises the exception of the last attempt.
C7_FetchTerminates ==
    /\ []C7_Safety
    /\ (fetch_pc # "idle") ~> FetchDone

\* All retries + 1 requests failed retryably and the last exception was
\* raised, after earlier waits.
C7_Witness ==
    /\ fetch_pc = "raised"
    /\ retries = MaxRetries
    /\ Len(requests) = retries + 1
    /\ \A i \in 1..Len(requests) : Retryable(requests[i])
    /\ requests[1] # requests[Len(requests)]
    /\ response = ExceptionOf(requests[Len(requests)])

\* A 4xx failure is the last request: the error is raised in the same step,
\* with no wait after it.
C8_Safety ==
    \A i \in 1..Len(requests) :
        IsClientError(requests[i]) =>
            /\ i = Len(requests)
            /\ fetch_pc = "raised"
            /\ response = [kind |-> "HTTPError", status |-> requests[i].status]
            /\ Len(sleeps) = i - 1

\* C8: a request failing with status 400..499 is never retried - fetch
\* raises that error at once, without another request or wait, however many
\* retries remain; a failure with status 500..599 is followed by another
\* attempt while retries remain.
C8_ClientErrorsNotRetried ==
    /\ []C8_Safety
    /\ \A i \in 1..(MaxRetries + 1) :
          (Len(requests) = i /\ IsServerError(requests[i]) /\ i <= retries)
              ~> (Len(requests) = i + 1)

\* A 5xx failure was retried, and the 4xx failure that followed was raised
\* with retries still remaining.
C8_Witness ==
    /\ fetch_pc = "raised"
    /\ Len(requests) = 2
    /\ retries = 2
    /\ IsServerError(requests[1])
    /\ IsClientError(requests[2])
    /\ sleeps = <<RETRY_DELAY>>

(***************************************************************************)
(* Claims about calculate_cumulative_return (checked under SpecCalc).      *)
(***************************************************************************)
\* The rows of a series that are chronologically before / right before r.
Earlier(series, r) ==
    {x \in series : x.country = r.country /\ LexLess(x.time_period, r.time_period)}

Previous(series, r) ==
    CHOOSE x \in Earlier(series, r) :
        \A y \in Earlier(series, r) : ~LexLess(x.time_period, y.time_period)

\* C10: when calculate_cumulative_return returns True, the target metric
\* holds exactly one row per source row (same country and period) and no
\* other row; the row of a country's chronologically first period is 100 and
\* every later row is the index of the previous period times
\* (current source value / previous source value).
C10_CumulativeReturn ==
    (last.op = "calculate_cumulative_return" /\ last.ret = <<TRUE>>) =>
        LET source == MetricRows(before, last.arg.source_metric)
            target == MetricRows(economic_data, last.arg.target_metric)
            At(series, r) ==
                {x \in series : x.country = r.country /\ x.time_period = r.time_period}
            the(series, r) == CHOOSE x \in At(series, r) : TRUE
        IN  /\ \A r \in source : Cardinality(At(target, r)) = 1
            /\ \A t \in target : At(source, t) # {}
            /\ \A t \in target :
                  IF Earlier(source, t) = {} THEN t.value = R(100)
                  ELSE LET prev == Previous(source, t)
                       IN  t.value = RMul(the(target, prev).value,
                                          RDiv(the(source, t).value, prev.value))

\* An existing index was replaced by a different one, for two countries,
\* and the third period of a series stands at 200.
C10_Witness ==
    /\ last.op = "calculate_cumulative_return"
    /\ last.ret = <<TRUE>>
    /\ last.arg.answer = "yes"
    /\ MetricRows(before, last.arg.target_metric) # MetricRows(economic_data, last.arg.target_metric)
    /\ {r.country : r \in MetricRows(economic_data, last.arg.target_metric)} = Countries
    /\ \E r \in economic_data :
          /\ r.metric_name = last.arg.target_metric
          /\ r.time_period = QuarterAt(3)
          /\ r.value = R(200)

(***************************************************************************)
(* Claims about the calculators of derived metrics (checked under          *)
(* SpecDerive).                                                            *)
(***************************************************************************)
\* The (gdp_per_capita row, population row) pairs of one country where the
\* population period is the year of the gdp_per_capita period.
GdpLevelPairs(tbl) ==
    {j \in MetricRows(tbl, "gdp_per_capita") \X MetricRows(tbl, "population") :
        /\ j[1].country = j[2].country
        /\ j[2].time_period = <<j[1].time_period[1], 0>>}

Projection(rows) == {<<r.country, r.time_period, r.value>> : r \in rows}

\* C11: after calculate_gdp_level the gdp_level rows are exactly one row per
\* gdp_per_capita row that has a population row of the same country and
\* year, with value per-capita value x population value; gdp_level rows
\* without such a pair are gone; running it again changes nothing.
C11_GdpLevelRows ==
    last.op = "calculate_gdp_level" =>
        /\ last.err = NoError
        /\ Projection(MetricRows(economic_data, "gdp_level"))
             = {<<j[1].country, j[1].time_period, RMul(j[1].value, j[2].value)>> :
                j \in GdpLevelPairs(before)}
        /\ Cardinality(MetricRows(economic_data, "gdp_level"))
             = Cardinality({j[1] : j \in GdpLevelPairs(before)})
        /\ InsertMany({r \in economic_data : r.metric_name # "gdp_level"},
                      gdp_level_records(economic_data), 1)
             = [err |-> NoError, tbl |-> economic_data]

\* A rerun dropped a gdp_level row whose gdp_per_capita row had been removed
\* and recomputed another from a revised population, while a country
\* without population got none.
C11_Witness ==
    /\ last.op = "calculate_gdp_level"
    /\ \E old \in MetricRows(before, "gdp_level") :
          ~HasKey(economic_data, old.country, old.time_period, "gdp_level")
    /\ \E r \in MetricRows(economic_data, "gdp_level"), old \in MetricRows(before, "gdp_level") :
          KeyOf(r) = KeyOf(old) /\ r.value # old.value
    /\ \E g \in MetricRows(economic_data, "gdp_per_capita") :
          ~HasKey(economic_data, g.country, g.time_period, "gdp_level")

\* C12: calculate_productivity_growth computes one growth record for every
\* gdp_per_capita observation that has an earlier observation of the same
\* country and for no other: productivity_growth = value - previous value,
\* productivity_growth_pct = that difference / previous value x 100 (0 when
\* the previous value is 0), previous being the latest earlier observation
\* of the same country.
C12_ProductivityGrowth ==
    last.op = "calculate_productivity_growth" =>
        LET source == MetricRows(before, "gdp_per_capita")
            later == {r \in source : Earlier(source, r) # {}}
            change(r) == RSub(r.value, Previous(source, r).value)
            pct(r) == IF RIsZero(Previous(source, r).value) THEN R(0)
                      ELSE RMul(RDiv(change(r), Previous(source, r).value), R(100))
            ValuesAt(m, r) ==
                {x.value : x \in {y \in economic_data :
                                     KeyOf(y) = <<r.country, r.time_period, m>>}}
        IN  /\ last.ret = <<Cardinality(later), Cardinality(later)>>
            /\ ~last.arg.dry_run =>
                  \A r \in later :
                      /\ ValuesAt("productivity_growth", r) = {change(r)}
                      /\ ValuesAt("productivity_growth_pct", r) = {pct(r)}

\* A live run over two countries: growth from a zero value is stored as 0
\* percent, and a fall of one country is stored next to a rise of the other.
C12_Witness ==
    /\ last.op = "calculate_productivity_growth"
    /\ ~last.arg.dry_run
    /\ last.ret = <<3, 3>>
    /\ \E g \in MetricRows(before, "gdp_per_capita") :
          /\ RIsZero(g.value)
          /\ \E r \in MetricRows(economic_data, "productivity_growth") :
                /\ r.country = g.country
                /\ g.time_period = QuarterAt(1)
                /\ r.time_period = QuarterAt(2)
                /\ r.value = R(2)
    /\ \E r \in MetricRows(economic_data, "productivity_growth_pct") :
          r.country = "Ireland" /\ r.value = R(-50)

CalculatorOps ==
    {"calculate_gdp_level", "calculate_cumulative_return",
     "calculate_productivity_growth", "calculate_savings_per_capita"}

\* The metric(s) the last calculator run writes.
TargetMetrics ==
    IF last.op = "calculate_gdp_level" THEN {"gdp_level"}
    ELSE IF last.op = "calculate_cumulative_return" THEN {last.arg.target_metric}
    ELSE IF last.op = "calculate_productivity_growth"
    THEN {"productivity_growth", "productivity_growth_pct"}
    ELSE {"savings_per_capita"}

\* C18: a run of a derived-metric calculator (calculate_cumulative_return
\* with a target other than its source, calculate_gdp_level,
\* calculate_productivity_growth, calculate_savings_per_capita) changes only
\* rows of its target metric(s): the rows of every other metric are the same
\* before and after.
C18_OnlyTargetChanges ==
    (last.op \in CalculatorOps) =>
        {r \in economic_data : r.metric_name \notin TargetMetrics}
            = {r \in before : r.metric_name \notin TargetMetrics}

\* A cumulative index replaced the rows of an existing metric while the
\* source rows at the same keys stayed.
C18_Witness ==
    /\ last.op = "calculate_cumulative_return"
    /\ last.arg.target_metric = "gdp_level"
    /\ last.ret = <<TRUE>>
    /\ MetricRows(before, "gdp_level") # {}
    /\ MetricRows(before, "gdp_level") # MetricRows(economic_data, "gdp_level")
    /\ MetricRows(economic_data, "gdp_per_capita") # {}

(***************************************************************************)
(* Claims about fix_quarter_mislabeling (checked under Spec).              *)
(***************************************************************************)
\* C13: after fix_quarter_mislabeling no row has time_period 2025-Q3; for
\* each (country, metric) that had a 2025-Q3 row, an existing 2005-Q4 row is
\* kept unchanged (and the 2025-Q3 row is deleted), otherwise a 2005-Q4 row
\* now holds the former 2025-Q3 value; no other 2005-Q4 row appears, rows of
\* every other period are unchanged, and a second run changes nothing.
C13_QuarterRelabel ==
    last.op = "fix_quarter_mislabeling" =>
        LET At(tbl, p) == {r \in tbl : r.time_period = p}
            moved == {[r EXCEPT !.time_period = P2005Q4] :
                      r \in {x \in At(before, P2025Q3) :
                                ~HasKey(before, x.country, P2005Q4, x.metric_name)}}
        IN  /\ last.err = NoError
            /\ At(economic_data, P2025Q3) = {}
            /\ At(economic_data, P2005Q4) = At(before, P2005Q4) \cup moved
            /\ {r \in economic_data : r.time_period \notin {P2025Q3, P2005Q4}}
                 = {r \in before : r.time_period \notin {P2025Q3, P2005Q4}}
            /\ fix_loop(economic_data, At(economic_data, P2025Q3), 0).tbl = economic_data

\* One run met both cases: a 2025-Q3 row was deleted because its 2005-Q4 row
\* existed with another value, and a 2025-Q3 row of another metric was
\* relabelled.
C13_Witness ==
    /\ last.op = "fix_quarter_mislabeling"
    /\ \E r \in before, k \in before :
          /\ r.time_period = P2025Q3
          /\ k.time_period = P2005Q4
          /\ k.country = r.country /\ k.metric_name = r.metric_name
          /\ k.value # r.value
          /\ k \in economic_data
    /\ \E r \in before :
          /\ r.time_period = P2025Q3
          /\ ~HasKey(before, r.country, P2005Q4, r.metric_name)
          /\ [r EXCEPT !.time_period = P2005Q4] \in economic_data

(***************************************************************************)
(* Claims about what the remediation filters mark (checked under           *)
(* SpecFilter).  In a live run the marked observations are the rows the    *)
(* run removed.                                                            *)
(***************************************************************************)
\* The rows of a series that are chronologically after / right after r.
Later(series, r) ==
    {x \in series : x.country = r.country /\ LexLess(r.time_period, x.time_period)}

Following(series, r) ==
    CHOOSE x \in Later(series, r) :
        \A y \in Later(series, r) : ~LexLess(y.time_period, x.time_period)

\* ((b - a) / a) x 100 for a > 0
Change(a, b) == RMul(RDiv(RSub(b, a), a), R(100))

Positive(v) == RLess(R(0), v)

\* r is an interior observation of its country series.
Interior(series, r) == Earlier(series, r) # {} /\ Later(series, r) # {}

\* Spike-and-revert or drop-and-recover at the interior observation r.
Reverts(series, r, thr) ==
    LET p == Previous(series, r).value
        n == Following(series, r).value
    IN  /\ Positive(p) /\ Positive(r.value) /\ Positive(n)
        /\ \/ RLess(R(thr), Change(p, r.value)) /\ RLess(Change(r.value, n), R(-thr))
           \/ RLess(Change(p, r.value), R(-thr)) /\ RLess(R(thr), Change(r.value, n))

\* r, its predecessor or its successor is <= 0.
NonPositiveAround(series, r) ==
    \/ ~Positive(Previous(series, r).value)
    \/ ~Positive(r.value)
    \/ ~Positive(Following(series, r).value)

\* C14: filter_outliers_selective marks every interior observation of a
\* country series whose value, predecessor and successor are > 0 and whose
\* changes in and out exceed the threshold in opposite directions, and never
\* marks an observation whose own, predecessor or successor value is <= 0:
\* a live run removes the former and keeps the latter, and the number
\* reported is at least the number of the former.
C14_OutlierPatterns ==
    (last.op = "filter_outliers_selective" /\ last.err = NoError) =>
        LET thr == last.arg.threshold_pct
            series(m) == MetricRows(before, m)
            marked == {r \in before :
                          /\ r.metric_name \in Range(last.arg.metrics)
                          /\ Interior(series(r.metric_name), r)
                          /\ Reverts(series(r.metric_name), r, thr)}
            spared == {r \in before :
                          /\ r.metric_name \in Range(last.arg.metrics)
                          /\ Interior(series(r.metric_name), r)
                          /\ NonPositiveAround(series(r.metric_name), r)}
        IN  /\ last.ret[1] >= Cardinality(marked)
            /\ ~last.arg.dry_run =>
                  /\ marked \cap economic_data = {}
                  /\ spared \subseteq economic_data

\* A live run removed a drop-and-recover observation and kept an interior
\* observation that rises from a zero predecessor and falls back.
C14_Witness ==
    /\ last.op = "filter_outliers_selective"
    /\ ~last.arg.dry_run
    /\ \E r \in before \ economic_data :
          /\ Interior(MetricRows(before, r.metric_name), r)
          /\ RLess(r.value, Previous(MetricRows(before, r.metric_name), r).value)
    /\ \E r \in economic_data :
          /\ r.metric_name \in Range(last.arg.metrics)
          /\ Interior(MetricRows(before, r.metric_name), r)
          /\ RIsZero(Previous(MetricRows(before, r.metric_name), r).value)
          /\ RLess(Following(MetricRows(before, r.metric_name), r).value, r.value)

\* The rows of one country series in period order.
Ordered(S) == SortKeyed({[k |-> r.time_period, v |-> r] : r \in S})

\* Where segments begin: position 1 and every position whose change from
\* the predecessor (a value > 0) exceeds the threshold in absolute value.
Cuts(ord, thr) ==
    {1} \cup {j \in 2..Len(ord) :
                 /\ Positive(ord[j-1].value)
                 /\ RLess(R(thr), RAbs(Change(ord[j-1].value, ord[j].value)))}

\* The beginning of the segment that holds position j.
CutBefore(cuts, j) == CHOOSE a \in cuts : a <= j /\ \A b \in cuts : b <= j => b <= a

RECURSIVE SumAt(_, _)
SumAt(ord, J) ==
    IF J = {} THEN R(0)
    ELSE LET j == CHOOSE x \in J : TRUE
         IN  RAdd(ord[j].value, SumAt(ord, J \ {j}))

\* The segments of the series: where each begins, its positions, its
\* average value.
Segs(ord, cuts) ==
    {Apply(LAMBDA members : [start |-> a, members |-> members,
                             avg |-> RDiv(SumAt(ord, members), R(Cardinality(members)))],
           {j \in 1..Len(ord) : CutBefore(cuts, j) = a}) : a \in cuts}

\* The longest segment, the earliest among equally long ones.
Longest(segs) ==
    CHOOSE a \in segs :
        \A b \in segs :
            \/ Cardinality(b.members) < Cardinality(a.members)
            \/ Cardinality(b.members) = Cardinality(a.members) /\ a.start <= b.start

\* The observations of the series ord that C15 says are marked: the series
\* has at least 10 points and at least 2 extreme changes, and the
\* observation lies in a segment other than the longest whose average
\* differs from the average of the longest by more than 40%.
MarkedIn(ord, thr) ==
    Apply(LAMBDA cuts :
              IF Len(ord) < 10 \/ Cardinality(cuts) < 3 THEN {}
              ELSE Apply(LAMBDA segs :
                             Apply(LAMBDA main :
                                       {ord[j] : j \in UNION {x.members : x \in
                                           {y \in segs :
                                               /\ y # main
                                               /\ RLess(R(40),
                                                        RAbs(Change(main.avg, y.avg)))}}},
                                   Longest(segs)),
                         Segs(ord, cuts)),
          Cuts(ord, thr))

LevelShiftMarked(S, thr) == Apply(LAMBDA ord : MarkedIn(ord, thr), Ordered(S))

\* The segments the filter builds for the series dp are pairwise disjoint,
\* cover every point, and each starts at the first point or at an extreme
\* change and holds no other extreme change.
SegmentsPartition(dp, thr) ==
    \A segs \in {segments(dp, thr)} :
        /\ \A i \in 1..Len(segs) : segs[i].length = Len(segs[i].periods) /\ segs[i].length >= 1
        /\ UNION {Range(segs[i].periods) : i \in 1..Len(segs)}
             = {dp[j].time_period : j \in 1..Len(dp)}
        /\ \A i, k \in 1..Len(segs) :
              i # k => Range(segs[i].periods) \cap Range(segs[k].periods) = {}
        /\ {segs[i].periods[1] : i \in 1..Len(segs)}
             = {dp[j].time_period : j \in {1} \cup extreme_changes(dp, thr)}

C19_BadDataMarks ==
    (last.op = "filter_bad_data" /\ ~last.arg.dry_run /\ last.err = NoError) =>
        \A r \in before \ economic_data :
            \A S \in {MetricRows(before, r.metric_name)} :
                /\ Earlier(S, r) # {}
                /\ Later(S, r) # {}
                /\ Positive(Previous(S, r).value)
                /\ RLess(R(last.arg.threshold_pct),
                         RAbs(Change(Previous(S, r).value, r.value)))
                /\ Previous(S, r) \in economic_data
                /\ Following(S, r) \in economic_data

\* A live run removed an observation and kept its successor, although the
\* successor falls by more than the threshold from the removed observation
\* and is followed by a rise of more than the threshold.
C19_Witness ==
    /\ last.op = "filter_bad_data"
    /\ ~last.arg.dry_run
    /\ \E r \in before \ economic_data :
        \E S \in {MetricRows(before, r.metric_name)} :
            /\ Later(S, r) # {}
            /\ \E f \in {Following(S, r)} :
                  /\ f \in economic_data
                  /\ Later(S, f) # {}
                  /\ Positive(f.value)
                  /\ RLess(Change(r.value, f.value), R(-(last.arg.threshold_pct)))
                  /\ RLess(R(last.arg.threshold_pct),
                           Change(f.value, Following(S, f).value))

(***************************************************************************)
(* Claims about split_into_batches (checked under SpecSplitFair and        *)
(* SpecSplit).                                                             *)
(***************************************************************************)
\* Quarters counted from year 0.
QuarterIndex(p) == 4 * p[1] + (p[2] - 1)

\* C16 (what is returned): for start_period not after end_period the
\* batches begin at start_period, end at end_period, each begins not after
\* it ends, and each next batch begins exactly one quarter after the
\* previous one ends; for start_period after end_period there is no batch.
C16_Returned ==
    split_pc = "returned" =>
        LET b == split_batches
            n == Len(split_batches)
        IN  IF QuarterIndex(split_arg.start_period) > QuarterIndex(split_arg.end_period)
            THEN b = <<>>
            ELSE /\ n >= 1
                 /\ b[1][1] = split_arg.start_period
                 /\ b[n][2] = split_arg.end_period
                 /\ \A i \in 1..n : QuarterIndex(b[i][1]) <= QuarterIndex(b[i][2])
                 /\ \A i \in 1..(n - 1) :
                       QuarterIndex(b[i + 1][1]) = QuarterIndex(b[i][2]) + 1

\* C16: for batch_years >= 1 split_into_batches terminates, and what it
\* returns is as C16_Returned says: chronological batches from start_period
\* to end_period without a missing or doubly covered quarter, and no batch
\* when start_period is after end_period.
C16_SplitCoversRange ==
    /\ []C16_Returned
    /\ (split_pc = "loop") ~> (split_pc = "returned")

\* A range was split into two batches: the first ends in a fourth quarter,
\* the second begins in the first quarter of the next year and is cut at
\* end_period.
C16_Witness ==
    /\ split_pc = "returned"
    /\ Len(split_batches) = 2
    /\ split_arg.batch_years = 1
    /\ split_batches[1][2][2] = 4
    /\ split_batches[2][1] = <<split_batches[1][2][1] + 1, 1>>
    /\ split_batches[2][2] = split_arg.end_period
    /\ QuarterIndex(split_batches[2][2]) - QuarterIndex(split_batches[2][1]) < 4

\* C20: every batch returned by split_into_batches spans at most
\* 4 x batch_years quarters, counting both its start and its end quarter.
C20_BatchSpan ==
    split_pc = "returned" =>
        \A i \in 1..Len(split_batches) :
            QuarterIndex(split_batches[i][2]) - QuarterIndex(split_batches[i][1]) + 1
                <= 4 * split_arg.batch_years

(***************************************************************************)
(* Claims about build_batched_urls (checked under SpecUrls).               *)
(***************************************************************************)
\* C17: build_batched_urls splits the configured country list into
\* consecutive batches numbered 1, 2, ... k: the batches, put one after
\* another, are the configured list (every country in exactly one batch,
\* order preserved), every batch has at least one and at most batch_size
\* countries, only the last may have fewer than batch_size, and the URL of
\* a batch asks for the countries of that batch.
C17_CountryBatches ==
    last.op = "build_batched_urls" =>
        LET urls == last.ret[1]
            k == Len(last.ret[1])
        IN  /\ \A i \in 1..k : urls[i].batch_num = i
            /\ Concat([i \in 1..k |-> urls[i].batch]) = last.arg.countries
            /\ \A i \in 1..k :
                  /\ Len(urls[i].batch) >= 1
                  /\ Len(urls[i].batch) <= last.arg.batch_size
                  /\ urls[i].url.data_selection = urls[i].batch
            /\ \A i \in 1..(k - 1) : Len(urls[i].batch) = last.arg.batch_size

\* Four countries in an order other than that of ALL_COUNTRIES went into
\* two batches, the second one short.
C17_Witness ==
    /\ last.op = "build_batched_urls"
    /\ last.arg.batch_size = 3
    /\ Len(last.arg.countries) = 4
    /\ last.arg.countries[1] = CountryCodes[3]
    /\ Len(last.ret[1]) = 2
    /\ Len(last.ret[1][2].batch) = 1

(***************************************************************************)
(* Claims about the counters of _upsert_to_database (checked under         *)
(* SpecUpsert).                                                            *)
(***************************************************************************)
\* The keys of the points of a call that had no row before the call.
NewKeys(call) ==
    {<<call.points[i].country, call.points[i].time_period, call.metric_name>> :
        i \in 1..Len(call.points)}
    \ {KeyOf(r) : r \in before}

\* C21: _upsert_to_database returns (insert_count, update_count) with
\* insert_count + update_count = number of points passed and insert_count =
\* number of rows the call adds to the table: a key that occurs several
\* times in the call counts once as an insert if it was absent before, and
\* as an update for every later occurrence.
C21_UpsertCounts ==
    (last.op = "fetch_and_upsert" /\ last.ret[1].upsert.points # <<>>) =>
        LET ret == last.ret[1]
        IN  /\ ret.points_inserted + ret.points_updated = Len(ret.upsert.points)
            /\ ret.points_inserted = Cardinality(economic_data) - Cardinality(before)
            /\ ret.points_inserted = Cardinality(NewKeys(ret.upsert))
            /\ ret.points_updated = Len(ret.upsert.points) - Cardinality(NewKeys(ret.upsert))

\* A call passed twice a key that had no row, while the table held a row
\* of another key: one insert, one update, one row more.
C21_Witness ==
    /\ last.op = "fetch_and_upsert"
    /\ Len(last.ret[1].upsert.points) = 2
    /\ last.ret[1].upsert.points[1].country = last.ret[1].upsert.points[2].country
    /\ last.ret[1].upsert.points[1].time_period = last.ret[1].upsert.points[2].time_period
    /\ before # {}
    /\ \A r \in before : r.country # last.ret[1].upsert.points[1].country
    /\ last.ret[1].points_inserted = 1
    /\ last.ret[1].points_updated = 1
    /\ Cardinality(economic_data) = Cardinality(before) + 1

(***************************************************************************)
(* Claims about the waits of OECDAPIClient.fetch (checked under SpecFetch).*)
(***************************************************************************)
\* C22: the waits between failed attempts are an exponential backoff - each
\* wait after the first is longer than the one before it by one and the
\* same factor - and no wait follows the final attempt.
C22_ExponentialBackoff ==
    /\ \A i, j \in 2..Len(sleeps) :
          /\ sleeps[i] > sleeps[i - 1]
          /\ sleeps[i] * sleeps[j - 1] = sleeps[j] * sleeps[i - 1]
    /\ FetchDone => Len(sleeps) = Len(requests) - 1

(***************************************************************************)
(* Claims about derived rows whose source rows are gone (checked under     *)
(* SpecDerive).                                                            *)
(***************************************************************************)
\* C23: after a live run of calculate_productivity_growth every
\* productivity_growth and productivity_growth_pct row has a gdp_per_capita
\* row of its country and period that is not the country's first, and after
\* a live run of calculate_savings_per_capita every savings_per_capita row
\* has a savings_rate and a disposable_income_per_capita row of its country
\* and period - also when a filter deleted source rows since the previous
\* derivation.
C23_NoStaleDerivedRows ==
    /\ (last.op = "calculate_productivity_growth" /\ ~last.arg.dry_run) =>
          \A r \in MetricRows(economic_data, "productivity_growth")
                    \cup MetricRows(economic_data, "productivity_growth_pct") :
              \E g \in MetricRows(economic_data, "gdp_per_capita") :
                  /\ g.country = r.country
                  /\ g.time_period = r.time_period
                  /\ Earlier(MetricRows(economic_data, "gdp_per_capita"), g) # {}
    /\ (last.op = "calculate_savings_per_capita" /\ ~last.arg.dry_run) =>
          \A r \in MetricRows(economic_data, "savings_per_capita") :
              /\ HasKey(economic_data, r.country, r.time_period, "savings_rate")
              /\ HasKey(economic_data, r.country, r.time_period,
                        "disposable_income_per_capita")

====
